---- MODULE Spec2Model ----
(***************************************************************************)
(* pp-downloader: the adaptive playlist scheduler (cmd/pp-downloader),     *)
(* the ingestion engine (internal/downloader), the SQLite state store      *)
(* (internal/database) and the file validator (internal/validator).        *)
(*                                                                         *)
(* Time is counted in minutes.  A string the code splits or searches (a    *)
(* playlist URL) is a sequence of tokens; a file path is a tuple.          *)
(***************************************************************************)
EXTENDS Integers, Sequences, FiniteSets, TLC

(***************************************************************************)
(* Program constants                                                       *)
(***************************************************************************)
ShortInterval == 5
LongInterval == 15
Day == 1440
TickPeriod == 1
ZeroTime == 0
MaxDuration == 153722867

(***************************************************************************)
(* Bounds of the model                                                     *)
(***************************************************************************)
MaxTicks == 2
MaxSchedTicks == 15
MaxPasses == 2
MaxCalls == 2
MaxCallers == 2
MaxLines == 3
MaxSweeps == 3
MaxAdvances == 5

(***************************************************************************)
(* Configuration and environment                                           *)
(***************************************************************************)
UrlA == <<"youtube.com/playlist?", "list=", "PLa", "&", "index=1">>
UrlB == <<"PLb">>
UrlADirect == <<"PLa">>
UrlNoList == <<"youtube.com/watch?v=x">>
UrlEmpty == <<>>

Names == {"jazz", "chill"}
NameOrder == <<"jazz", "chill">>
TwoPlaylists == [n \in {"jazz", "chill"} |-> IF n = "jazz" THEN UrlA ELSE UrlB]
OnePlaylist == [n \in {"jazz"} |-> UrlA]
CallUrls == {UrlA, UrlB, UrlADirect, UrlNoList, UrlEmpty}

VideoIDs == {"v1", "v2"}
RawListings == {<<>>, <<"v1">>, <<"v1", "", "v2">>, <<"v2", "v1">>}

RemoteIDs == {<<"PLa">>, <<"PLb">>}

NoPath == <<>>

(***************************************************************************)
(* strings.Contains / strings.Split on token sequences                     *)
(***************************************************************************)
Contains(s, tok) == \E i \in 1..Len(s) : s[i] = tok

ContainsSite(s) ==
    \E i \in 1..Len(s) : s[i] \in {"youtube.com/playlist?", "youtube.com/watch?v=x", "youtu.be/x?"}

IndexOf(s, tok) ==
    IF Contains(s, tok) THEN CHOOSE i \in 1..Len(s) : s[i] = tok /\ \A j \in 1..(i-1) : s[j] # tok
    ELSE 0

RECURSIVE Split(_, _)
Split(s, sep) ==
    IF ~Contains(s, sep) THEN <<s>>
    ELSE LET i == IndexOf(s, sep)
         IN  <<SubSeq(s, 1, i-1)>> \o Split(SubSeq(s, i+1, Len(s)), sep)

extractPlaylistID(url) ==
    IF ~ContainsSite(url) THEN url
    ELSE IF Contains(url, "list=")
         THEN LET parts == Split(url, "list=")
              IN  IF Len(parts) > 1
                  THEN LET id == Split(parts[2], "&")[1]
                       IN  IF id # <<>> THEN id ELSE url
                  ELSE url
         ELSE url

(***************************************************************************)
(* time.Time arithmetic and the cadence state                              *)
(***************************************************************************)
Sub(t, u) == IF u = ZeroTime THEN MaxDuration ELSE t - u

\* a cadence that still counts exactly 24 hours as recent
calculateIntervalInclusive(ps, nowT) ==
    IF Sub(nowT, ps.lastChange) <= Day THEN ShortInterval ELSE LongInterval

calculateInterval(ps, nowT) ==
    IF Sub(nowT, ps.lastChange) < Day THEN ShortInterval ELSE LongInterval

\* a due check that reads the interval stored in the playlistState
isDueStoredInterval(ps, nowT, force) ==
    force \/ Sub(nowT, ps.lastChecked) >= ps.interval

\* a due check that only a forced round passes
isDueForcedOnly(ps, nowT, force) == force

\* a due check that waits one tick longer than the interval
isDueStrict(ps, nowT, force) ==
    force \/ Sub(nowT, ps.lastChecked) > calculateInterval(ps, nowT)

isDue(ps, nowT, force) ==
    force \/ Sub(nowT, ps.lastChecked) >= calculateInterval(ps, nowT)

\* an update that forgets lastChecked when it records a change
updateStateChangeOnly(ps, changed, nowT) ==
    IF changed THEN [ps EXCEPT !.lastChange = nowT] ELSE [ps EXCEPT !.lastChecked = nowT]

\* an update that records a change after every pass
updateStateAlways(ps, changed, nowT) ==
    [ps EXCEPT !.lastChecked = nowT, !.lastChange = nowT]

updateState(ps, changed, nowT) ==
    [ps EXCEPT !.lastChecked = nowT,
               !.lastChange = IF changed THEN nowT ELSE @]

newPlaylistState == [lastChecked |-> ZeroTime, lastChange |-> ZeroTime, interval |-> ShortInterval]

(***************************************************************************)
(* File paths                                                              *)
(***************************************************************************)
DerivedPath(v) == <<".music", v>>
DownloadPath(name, v) == <<"out", name, v>>
FileSizeOf(v) == IF v = "v1" THEN 11 ELSE 22

(***************************************************************************)
(* State store: tables playlists and videos                                *)
(***************************************************************************)
RECURSIVE SetMax(_)
SetMax(S) ==
    IF S = {} THEN 0
    ELSE LET x == CHOOSE y \in S : TRUE
             m == SetMax(S \ {x})
         IN  IF x > m THEN x ELSE m

PlaylistRows(pls, youtubeID) == {r \in pls : r.youtube_id = youtubeID}

InsertPlaylist(pls, youtubeID, title) ==
    pls \cup {[id |-> SetMax({r.id : r \in pls}) + 1, youtube_id |-> youtubeID,
               title |-> title, video_count |-> 0]}

\* a GetOrCreatePlaylist that hands out a new row without inserting it
GetOrCreatePlaylistNoInsert(pls, youtubeID, title, fail) ==
    IF fail
    THEN [playlists |-> pls, err |-> TRUE,
          row |-> [id |-> 0, youtube_id |-> youtubeID, title |-> title, video_count |-> 0]]
    ELSE IF PlaylistRows(pls, youtubeID) # {}
         THEN [playlists |-> pls, err |-> FALSE,
               row |-> CHOOSE r \in pls : r.youtube_id = youtubeID]
         ELSE [playlists |-> pls, err |-> FALSE,
               row |-> [id |-> SetMax({r.id : r \in pls}) + 1, youtube_id |-> youtubeID,
                        title |-> title, video_count |-> 0]]

\* a GetOrCreatePlaylist that gives a row it finds the title it was called with
GetOrCreatePlaylistRetitle(pls, youtubeID, title, fail) ==
    IF fail
    THEN [playlists |-> pls, err |-> TRUE,
          row |-> [id |-> 0, youtube_id |-> youtubeID, title |-> title, video_count |-> 0]]
    ELSE LET old == PlaylistRows(pls, youtubeID)
             new == IF old = {} THEN InsertPlaylist(pls, youtubeID, title)
                    ELSE (pls \ old) \cup {[r EXCEPT !.title = title] : r \in old}
         IN  [playlists |-> new, err |-> FALSE,
              row |-> CHOOSE r \in new : r.youtube_id = youtubeID]

\* result of Database.GetOrCreatePlaylist: the table afterwards, the row
\* handed to the caller and the error flag
GetOrCreatePlaylist(pls, youtubeID, title, fail) ==
    IF fail
    THEN [playlists |-> pls, err |-> TRUE,
          row |-> [id |-> 0, youtube_id |-> youtubeID, title |-> title, video_count |-> 0]]
    ELSE IF PlaylistRows(pls, youtubeID) # {}
         THEN [playlists |-> pls, err |-> FALSE,
               row |-> CHOOSE r \in pls : r.youtube_id = youtubeID]
         ELSE LET new == InsertPlaylist(pls, youtubeID, title)
              IN  [playlists |-> new, err |-> FALSE,
                   row |-> CHOOSE r \in new : r.youtube_id = youtubeID]

\* an existence check that never finds the row
VideoExistsNever(vids, youtubeID) == FALSE

VideoExists(vids, youtubeID) == \E r \in vids : r.youtube_id = youtubeID

CountVideos(vids, playlistID) == Cardinality({r \in vids : r.playlist_id = playlistID})

\* an upsert that leaves file_path empty until the download is recorded
UpsertVideoNoPath(vids, youtubeID, playlistID, playlistTitle, nowT) ==
    {r \in vids : r.youtube_id # youtubeID}
        \cup {[youtube_id |-> youtubeID, playlist_id |-> playlistID,
                playlist_title |-> playlistTitle,
                file_path |-> NoPath, file_size |-> 0,
                validation_status |-> "pending",
                last_validated |-> [t |-> nowT, fmt |-> "go"]]}

\* an upsert that writes the row as already validated
UpsertVideoValid(vids, youtubeID, playlistID, playlistTitle, nowT) ==
    {r \in vids : r.youtube_id # youtubeID}
        \cup {[youtube_id |-> youtubeID, playlist_id |-> playlistID,
                playlist_title |-> playlistTitle,
                file_path |-> DerivedPath(youtubeID), file_size |-> 0,
                validation_status |-> "valid",
                last_validated |-> [t |-> nowT, fmt |-> "go"]]}

\* an INSERT without its ON CONFLICT(youtube_id) clause and without the index
UpsertVideoInsert(vids, youtubeID, playlistID, playlistTitle, nowT) ==
    vids \cup {[youtube_id |-> youtubeID, playlist_id |-> playlistID,
                playlist_title |-> playlistTitle,
                file_path |-> DerivedPath(youtubeID), file_size |-> 0,
                validation_status |-> "pending",
                last_validated |-> [t |-> nowT, fmt |-> "go"]]}

UpsertVideo(vids, youtubeID, playlistID, playlistTitle, nowT) ==
    LET row == [youtube_id |-> youtubeID, playlist_id |-> playlistID,
                playlist_title |-> playlistTitle,
                file_path |-> DerivedPath(youtubeID), file_size |-> 0,
                validation_status |-> "pending",
                last_validated |-> [t |-> nowT, fmt |-> "go"]]
    IN  {r \in vids : r.youtube_id # youtubeID} \cup {row}

RecountPlaylist(pls, vids, playlistID) ==
    {IF r.id = playlistID THEN [r EXCEPT !.video_count = CountVideos(vids, playlistID)] ELSE r
        : r \in pls}

\* an AddVideo that reports success without writing the row
AddVideoNoUpsert(pls, vids, youtubeID, playlistYoutubeID, playlistTitle, nowT, fault) ==
    [playlists |-> pls, videos |-> vids, err |-> FALSE]

\* Database.AddVideo; fault is "none", "playlist" (the nested GetOrCreatePlaylist
\* fails) or "tx" (a statement or the commit of the video transaction fails)
AddVideo(pls, vids, youtubeID, playlistYoutubeID, playlistTitle, nowT, fault) ==
    LET got == GetOrCreatePlaylist(pls, playlistYoutubeID, playlistTitle, fault = "playlist")
    IN  IF got.err THEN [playlists |-> pls, videos |-> vids, err |-> TRUE]
        ELSE IF fault = "tx" THEN [playlists |-> got.playlists, videos |-> vids, err |-> TRUE]
        ELSE LET vs == UpsertVideo(vids, youtubeID, got.row.id, playlistTitle, nowT)
             IN  [playlists |-> RecountPlaylist(got.playlists, vs, got.row.id),
                  videos |-> vs, err |-> FALSE]

\* an UPDATE that leaves file_path as AddVideo derived it
UpdateFileInfoKeepsPath(vids, youtubeID, filePath, fileSize, nowT) ==
    {IF r.youtube_id = youtubeID
        THEN [r EXCEPT !.file_size = fileSize, !.validation_status = "valid",
                       !.last_validated = [t |-> nowT, fmt |-> "sql"]]
        ELSE r : r \in vids}

\* an UPDATE with no WHERE clause
UpdateFileInfoAll(vids, youtubeID, filePath, fileSize, nowT) ==
    {[r EXCEPT !.file_path = filePath, !.file_size = fileSize,
               !.validation_status = "valid",
               !.last_validated = [t |-> nowT, fmt |-> "sql"]] : r \in vids}

\* Database.UpdateFileInfo: one UPDATE ... WHERE youtube_id = ?, which changes
\* nothing when no row has the id
UpdateFileInfo(vids, youtubeID, filePath, fileSize, nowT) ==
    {IF r.youtube_id = youtubeID
        THEN [r EXCEPT !.file_path = filePath, !.file_size = fileSize,
                       !.validation_status = "valid",
                       !.last_validated = [t |-> nowT, fmt |-> "sql"]]
        ELSE r : r \in vids}

\* a sweep that never looks at the disk
StatStatusPresent(fs, dn, path) == "valid"

\* the status ValidateFiles derives from os.Stat
StatStatus(fs, dn, path) ==
    IF path \in dn THEN "error" ELSE IF path \in fs THEN "valid" ELSE "missing"

HasFilePath(r) == r.file_path # NoPath

\* a sweep that passes over the rows whose file is gone
ValidateFilesSkipsMissing(vids, fs, dn, nowT, failed) ==
    [videos |-> {IF HasFilePath(r) /\ r.youtube_id \notin failed
                    /\ StatStatus(fs, dn, r.file_path) # "missing"
                    THEN [r EXCEPT !.validation_status = StatStatus(fs, dn, r.file_path),
                                   !.last_validated = [t |-> nowT, fmt |-> "rfc3339"]]
                    ELSE r : r \in vids},
     checked |-> Cardinality({r \in vids : HasFilePath(r) /\ r.file_path \in fs})]

\* Database.ValidateFiles when its transaction commits: the table afterwards
\* and the count it returns; failed holds the ids whose UPDATE failed, which
\* the loop logs and passes over
ValidateFiles(vids, fs, dn, nowT, failed) ==
    [videos |-> {IF HasFilePath(r) /\ r.youtube_id \notin failed
                    THEN [r EXCEPT !.validation_status = StatStatus(fs, dn, r.file_path),
                                   !.last_validated = [t |-> nowT, fmt |-> "rfc3339"]]
                    ELSE r : r \in vids},
     checked |-> Cardinality({r \in vids : HasFilePath(r)})]

\* the text a last_validated is stored as: day, separator, time of day and
\* what follows it, the characters by their codes.  The driver writes a
\* time.Time as "2006-01-02 15:04:05.999999999-07:00", CURRENT_TIMESTAMP is
\* "YYYY-MM-DD HH:MM:SS", time.RFC3339 is "2006-01-02T15:04:05Z07:00"
FormatTime(lv) ==
    IF lv.fmt = "go" THEN <<lv.t \div Day, 32, lv.t % Day, 43>>
    ELSE IF lv.fmt = "sql" THEN <<lv.t \div Day, 32, lv.t % Day>>
    ELSE <<lv.t \div Day, 84, lv.t % Day, 90>>

\* a < b for two TEXT values, as SQLite's BINARY collation compares them
RECURSIVE TextLess(_, _)
TextLess(a, b) ==
    IF b = <<>> THEN FALSE
    ELSE IF a = <<>> THEN TRUE
    ELSE IF Head(a) # Head(b) THEN Head(a) < Head(b)
    ELSE TextLess(Tail(a), Tail(b))

\* SQL NULL in last_validated
NullTime == [t |-> ZeroTime, fmt |-> "null"]

\* datetime('now', '-N seconds')
datetimeNow(nowT, maxAge) == FormatTime([t |-> nowT - maxAge, fmt |-> "sql"])

\* Database.GetVideosNeedingValidation: the ids the query selects
GetVideosNeedingValidation(vids, nowT, maxAge) ==
    {r.youtube_id : r \in {x \in vids :
        /\ HasFilePath(x)
        /\ \/ x.last_validated = NullTime
           \/ TextLess(FormatTime(x.last_validated), datetimeNow(nowT, maxAge))}}

\* os.IsNotExist(err) for the error of os.Stat
IsNotExist(fs, dn, path) == path \notin dn /\ path \notin fs

\* a cleanup that trusts the status and does not look at the disk again
CleanupMissingFilesNoStat(vids, fs, dn, failed) ==
    LET gone == {r \in vids : r.validation_status = "missing" /\ r.youtube_id \notin failed}
    IN  [videos |-> vids \ gone, deleted |-> Cardinality(gone)]

\* Validator.CleanupMissingFiles when its transaction commits: the table
\* afterwards and the count it returns; failed holds the ids whose DELETE
\* failed, which the loop logs and passes over
CleanupMissingFiles(vids, fs, dn, failed) ==
    LET gone == {r \in vids : /\ r.validation_status = "missing"
                               /\ IsNotExist(fs, dn, r.file_path)
                               /\ r.youtube_id \notin failed}
    IN  [videos |-> vids \ gone, deleted |-> Cardinality(gone)]

(***************************************************************************)
(* State                                                                   *)
(***************************************************************************)
VARIABLES
    cfg,        \* cfg.Playlists: display name -> url
    horizon,    \* number of driver ticks explored
    now,        \* wall clock
    ticks,      \* number of clock advances so far
    sched,      \* runScheduler: "init", "loop" or "stopped"
    states,     \* playlistStates: url -> playlistState
    passes,     \* bag of the goroutines running ProcessPlaylist
    playlists,  \* table playlists
    videos,     \* table videos
    files,      \* paths that exist on disk
    remote,     \* what the listing tool returns per playlist (entries' ids)
    round,      \* history: the last processAllPlaylists round
    calc,       \* history: url -> the last result of a direct calculateInterval call
    fetchOK,    \* history: video id -> number of successful downloadVideo calls
    lastCall,   \* history: the last completed direct ProcessPlaylist call
    lastOp,     \* history: the last store-level operation of the validator
    removed,    \* history: ids whose rows CleanupMissingFiles deleted
    calls,      \* number of direct calls of ProcessPlaylist and AddVideo
    sweeps,     \* number of direct calls of the validation methods and of files put back
    denied,     \* paths for which os.Stat fails with an error other than "not exist"
    ret,        \* what the last direct call of a store method found and returned
    validator,  \* the Validator service: where Start is, its ticker and its stopChan
    txs,        \* callers inside GetOrCreatePlaylist: their open transactions
    dl,         \* one downloadVideo call: the tool's output and what the call returned
    mu,         \* url -> who holds playlistState.mu: "free", "driver" or "pass"
    driver,     \* processAllPlaylists statement by statement: where it is, what it read
    access,     \* history: the last access to lastChecked or lastChange
    shutdown,   \* main: "no", "requested" (cancel() called) or "complete"
    killed      \* history: number of passes in flight when the process ended

vars == <<cfg, horizon, now, ticks, sched, states, passes, playlists, videos, files, remote,
          round, calc, fetchOK, lastCall, lastOp, removed, calls, sweeps, denied,
          ret, validator, txs, dl, mu, driver, access, shutdown, killed>>

procVars == <<mu, driver, access, shutdown, killed>>
storeVars == <<playlists, videos>>
schedVars == <<cfg, horizon, now, ticks, sched, states, round, calc>>

CfgUrls(c) == {c[n] : n \in DOMAIN c}

(***************************************************************************)
(* The bag of passes in flight                                             *)
(***************************************************************************)
BagPut(b, e) ==
    IF e \in DOMAIN b THEN [b EXCEPT ![e] = @ + 1]
    ELSE [x \in DOMAIN b \cup {e} |-> IF x = e THEN 1 ELSE b[x]]

BagTake(b, e) ==
    IF b[e] > 1 THEN [b EXCEPT ![e] = @ - 1]
    ELSE [x \in DOMAIN b \ {e} |-> b[x]]

RECURSIVE BagSize(_)
BagSize(b) ==
    IF DOMAIN b = {} THEN 0
    ELSE LET e == CHOOSE x \in DOMAIN b : TRUE
         IN  b[e] + BagSize([x \in DOMAIN b \ {e} |-> b[x]])

EmptyBag == [x \in {} |-> 0]

\* p takes a step and becomes q
Stepped(b, p, q) == BagPut(BagTake(b, p), q)

\* no direct ProcessPlaylist call was the last thing to happen
NoCall == [url |-> <<>>, err |-> "none", faults |-> FALSE, failed |-> {}]

\* no direct call of a store method was the last thing to happen
NoRet == [op |-> "none", arg |-> <<>>, err |-> FALSE, n |-> 0, ids |-> {},
          playlists0 |-> {}, videos0 |-> {}]

\* NewValidator: Start not called, no ticker yet, stopChan open
ValidatorOff ==
    [pc |-> "off", interval |-> 0, ticker |-> FALSE, tick |-> FALSE, stop |-> FALSE,
     ids |-> {}, out |-> "none", stopAt |-> "none", late |-> 0]

\* downloadVideo not called
NoDl == [pc |-> "idle", output |-> <<>>, path |-> <<>>, size |-> 0, err |-> "none"]

NoRow == [id |-> 0, youtube_id |-> <<>>, title |-> "", video_count |-> 0]

\* a goroutine that is not inside GetOrCreatePlaylist
NoTx ==
    [pc |-> "idle", youtubeID |-> <<>>, title |-> "", row |-> NoRow, created |-> FALSE,
     lock |-> "none", err |-> "none"]

Callers == 1..MaxCallers

NoTxs == [c \in Callers |-> NoTx]

NewPass(name, url, viaScheduler) ==
    [pc |-> "start", url |-> url, name |-> name, viaScheduler |-> viaScheduler,
     playlist |-> [YoutubeID |-> <<>>, Title |-> ""],
     list |-> <<>>, i |-> 0, filePath |-> NoPath, fileSize |-> 0,
     changed |-> FALSE, err |-> "none",
     rows0 |-> {}, pls0 |-> {}, prev |-> NoCall,
     log |-> <<>>]

InFlightFor(b, url) == BagSize([p \in {x \in DOMAIN b : x.url = url} |-> b[p]])

VideoKeys(vids) == {r.youtube_id : r \in vids}

RECURSIVE FilterEntries(_)
FilterEntries(entries) ==
    IF entries = <<>> THEN <<>>
    ELSE IF Head(entries) = "" THEN FilterEntries(Tail(entries))
         ELSE <<Head(entries)>> \o FilterEntries(Tail(entries))

\* processAllPlaylists not running
DriverIdle == [pc |-> "idle", i |-> 0, seen |-> ZeroTime]

InitConstructed ==
    /\ ticks = 0
    /\ sched = "init"
    /\ states = [u \in CfgUrls(cfg) |-> newPlaylistState]
    /\ passes = EmptyBag
    /\ playlists = {}
    /\ videos = {}
    /\ files = {}
    /\ round = [kind |-> "none", at |-> ZeroTime, launched |-> {}]
    /\ calc = [u \in CfgUrls(cfg) |-> [at |-> ZeroTime, lastChange |-> ZeroTime, interval |-> 0]]
    /\ fetchOK = [v \in VideoIDs |-> 0]
    /\ lastCall = NoCall
    /\ lastOp = "none"
    /\ removed = {}
    /\ calls = 0
    /\ sweeps = 0
    /\ denied = {}
    /\ ret = NoRet
    /\ validator = ValidatorOff
    /\ txs = NoTxs
    /\ dl = NoDl
    /\ mu = [u \in CfgUrls(cfg) |-> "free"]
    /\ driver = DriverIdle
    /\ access = [by |-> "none", field |-> "none", kind |-> "none", holder |-> "none"]
    /\ shutdown = "no"
    /\ killed = 0

InitCommon ==
    /\ now = 1
    /\ InitConstructed

\* the process as main() starts it, watching two playlists that share a video
Init ==
    /\ cfg = TwoPlaylists
    /\ horizon = MaxTicks
    /\ remote \in [RemoteIDs -> {<<"v1">>}]
    /\ InitCommon

(***************************************************************************)
(* Downloader.ProcessPlaylist, one step per store access, run by pass p    *)
(***************************************************************************)
Logged(p, ev) == [p EXCEPT !.log = Append(@, ev)]

\* what the pass has done so far, read off its log
Listed(p) == {p.list[i] : i \in 1..Len(p.list)}
LogIds(p, kind, result) ==
    {p.log[i][2] : i \in {j \in 1..Len(p.log) : p.log[j][1] = kind /\ p.log[j][3] = result}}
FetchedOK(p) == LogIds(p, "fetch", TRUE)
FetchFailed(p) == LogIds(p, "fetch", FALSE) \ FetchedOK(p)
Stored(p) == LogIds(p, "add", TRUE)
Announced(p, downloaded) == LogIds(p, "callback", downloaded)
Attempted(p) == {p.log[i][2] : i \in 1..Len(p.log)}
CallbackCount(p, v, downloaded) ==
    Cardinality({i \in 1..Len(p.log) : p.log[i] = <<"callback", v, downloaded>>})

\* whether a store call of the pass has failed
StoreFaults(p) ==
    \/ p.err = "store"
    \/ \E i \in 1..Len(p.log) :
          \/ p.log[i][1] = "exists" /\ p.log[i][3] = "error"
          \/ p.log[i][1] \in {"add", "update"} /\ p.log[i][3] = FALSE

\* a loop that gives up after the item at hand
NextVideoAbort(p) == [p EXCEPT !.pc = "return", !.filePath = NoPath, !.fileSize = 0]

\* the loop's "continue" and its normal end of body: on to the next video
NextVideo(p) ==
    IF p.i < Len(p.list)
    THEN [p EXCEPT !.pc = "exists", !.i = @ + 1, !.filePath = NoPath, !.fileSize = 0]
    ELSE [p EXCEPT !.pc = "return", !.filePath = NoPath, !.fileSize = 0]

\* what the listing tool prints for a url: the entries of the playlist the
\* url names, nothing for a url that names no playlist
RemoteEntries(rem, url) ==
    IF extractPlaylistID(url) \in DOMAIN rem THEN rem[extractPlaylistID(url)] ELSE <<>>

\* a getPlaylistVideos that hands the entries over last first
getPlaylistVideosReversed(rem, url, ok) ==
    LET es == FilterEntries(RemoteEntries(rem, url))
    IN  [err |-> ~ok,
         videos |-> IF ok THEN [i \in 1..Len(es) |-> es[Len(es) + 1 - i]] ELSE <<>>]

\* getPlaylistVideos: the tool fails, or its entries with a non-empty id
getPlaylistVideos(rem, url, ok) ==
    [err |-> ~ok, videos |-> IF ok THEN FilterEntries(RemoteEntries(rem, url)) ELSE <<>>]

\* extractPlaylistID, GetOrCreatePlaylist and getPlaylistVideos, up to the loop
PassStart(p0) ==
    /\ p0.pc = "start"
    /\ LET p == IF p0.viaScheduler THEN p0 ELSE [p0 EXCEPT !.rows0 = videos, !.pls0 = playlists,
                                                           !.prev = lastCall]
           playlistID == extractPlaylistID(p.url)
       IN  IF playlistID = <<>>
           THEN /\ passes' = Stepped(passes, p0, [p EXCEPT !.pc = "return", !.err = "invalid"])
                /\ UNCHANGED playlists
           ELSE \E fail \in BOOLEAN, listOk \in BOOLEAN :
                LET got == GetOrCreatePlaylist(playlists, playlistID, p.name, fail)
                    listed == getPlaylistVideos(remote, p.url, listOk)
                    q == [p EXCEPT !.playlist = [YoutubeID |-> got.row.youtube_id,
                                                 Title |-> got.row.title]]
                IN  IF got.err
                    THEN /\ listOk
                         /\ passes' = Stepped(passes, p0, [p EXCEPT !.pc = "return", !.err = "store"])
                         /\ UNCHANGED playlists
                    ELSE /\ playlists' = got.playlists
                         /\ passes' = Stepped(passes, p0,
                                IF listed.err THEN [q EXCEPT !.pc = "return", !.err = "list"]
                                ELSE IF Len(listed.videos) = 0 THEN [q EXCEPT !.pc = "return"]
                                ELSE [q EXCEPT !.pc = "exists", !.list = listed.videos, !.i = 1])
    /\ lastOp' = "ingest"
    /\ ret' = NoRet
    /\ UNCHANGED <<dl, txs, validator, procVars, schedVars, videos, files, remote, fetchOK, lastCall, removed, calls, sweeps, denied>>

\* VideoExists, the skip of a known video, and downloadVideo for an unknown
\* one: the tool writes the file and announces it, or fails
PassExists(p) ==
    /\ p.pc = "exists"
    /\ \E outcome \in {"error", "fetched", "fetchFailed"} :
        LET v == p.list[p.i]
            path == DownloadPath(p.name, v)
        IN  IF outcome = "error"
            THEN /\ passes' = Stepped(passes, p, NextVideo(Logged(p, <<"exists", v, "error">>)))
                 /\ UNCHANGED <<dl, txs, files, fetchOK>>
            ELSE IF VideoExists(videos, v)
            THEN /\ outcome = "fetched"
                 /\ passes' = Stepped(passes, p, NextVideo(Logged(p, <<"callback", v, FALSE>>)))
                 /\ UNCHANGED <<dl, txs, files, fetchOK>>
            ELSE IF outcome = "fetched"
            THEN /\ path \notin denied
                 /\ files' = files \cup {path}
                 /\ fetchOK' = [fetchOK EXCEPT ![v] = @ + 1]
                 /\ passes' = Stepped(passes, p,
                        [Logged(p, <<"fetch", v, TRUE>>) EXCEPT !.pc = "add", !.filePath = path,
                                                               !.fileSize = FileSizeOf(v)])
            ELSE /\ passes' = Stepped(passes, p, NextVideo(Logged(p, <<"fetch", v, FALSE>>)))
                 /\ UNCHANGED <<dl, txs, files, fetchOK>>
    /\ lastOp' = "ingest"
    /\ ret' = NoRet
    /\ UNCHANGED <<dl, txs, validator, procVars, schedVars, storeVars, remote, lastCall, removed, calls, sweeps, denied>>

\* AddVideo
PassAdd(p) ==
    /\ p.pc = "add"
    /\ \E fault \in {"none", "playlist", "tx"} :
        LET v == p.list[p.i]
            res == AddVideo(playlists, videos, v, p.playlist.YoutubeID, p.playlist.Title, now, fault)
        IN  /\ playlists' = res.playlists
            /\ videos' = res.videos
            /\ passes' = Stepped(passes, p,
                    IF res.err THEN NextVideo(Logged(p, <<"add", v, FALSE>>))
                    ELSE [Logged(p, <<"add", v, TRUE>>) EXCEPT !.pc = "update"])
    /\ lastOp' = "ingest"
    /\ ret' = NoRet
    /\ UNCHANGED <<dl, txs, validator, procVars, schedVars, files, remote, fetchOK, lastCall, removed, calls, sweeps, denied>>

\* UpdateFileInfo (a failure is logged only) and callback(video.ID, true)
PassUpdate(p) ==
    /\ p.pc = "update"
    /\ \E fail \in BOOLEAN :
        LET v == p.list[p.i]
        IN  /\ videos' = IF fail THEN videos
                         ELSE UpdateFileInfo(videos, v, p.filePath, p.fileSize, now)
            /\ passes' = Stepped(passes, p,
                    NextVideo([Logged(Logged(p, <<"update", v, ~fail>>), <<"callback", v, TRUE>>)
                                  EXCEPT !.changed = TRUE]))
    /\ lastOp' = "ingest"
    /\ ret' = NoRet
    /\ UNCHANGED <<dl, txs, validator, procVars, schedVars, playlists, files, remote, fetchOK, lastCall, removed, calls, sweeps, denied>>

\* return of ProcessPlaylist; under the scheduler, processPlaylist then calls
\* state.updateState(changed)
PassReturn(p) ==
    /\ p.pc = "return"
    /\ states' = IF p.viaScheduler
                 THEN [states EXCEPT ![p.url] = updateState(@, p.changed, now)]
                 ELSE states
    /\ lastCall' = IF p.viaScheduler THEN lastCall
                   ELSE [url |-> p.url, err |-> IF p.err = "none" THEN "ok" ELSE p.err,
                         faults |-> StoreFaults(p), failed |-> FetchFailed(p)]
    /\ passes' = BagTake(passes, p)
    /\ ret' = NoRet
    /\ UNCHANGED <<dl, txs, validator, procVars, cfg, horizon, now, ticks, sched, round, calc, storeVars, files, remote,
                   fetchOK, lastOp, removed, calls, sweeps, denied>>

PassStep(p) ==
    \/ PassStart(p)
    \/ PassExists(p)
    \/ PassAdd(p)
    \/ PassUpdate(p)
    \/ PassReturn(p)

(***************************************************************************)
(* runScheduler and processAllPlaylists                                    *)
(***************************************************************************)
\* history of one calculateInterval call
Calculated(ps, nowT) ==
    [at |-> nowT, lastChange |-> ps.lastChange, interval |-> calculateInterval(ps, nowT)]

DueNames(nowT, force) == {n \in DOMAIN cfg : isDue(states[cfg[n]], nowT, force)}

RECURSIVE LaunchAll(_, _, _)
LaunchAll(b, due, i) ==
    IF i > Len(NameOrder) THEN b
    ELSE IF NameOrder[i] \in due
         THEN LaunchAll(BagPut(b, NewPass(NameOrder[i], cfg[NameOrder[i]], TRUE)), due, i + 1)
         ELSE LaunchAll(b, due, i + 1)

processAllPlaylists(nowT, force) ==
    LET due == DueNames(nowT, force)
    IN  /\ BagSize(passes) + Cardinality(due) <= MaxPasses
        /\ passes' = LaunchAll(passes, due, 1)
        /\ round' = [kind |-> IF force THEN "forced" ELSE "tick", at |-> nowT, launched |-> due]
        /\ UNCHANGED calc

\* the forced round runScheduler makes before it creates its ticker
InitialRound ==
    /\ sched = "init"
    /\ processAllPlaylists(now, TRUE)
    /\ sched' = "loop"
    /\ UNCHANGED <<dl, txs, validator, ret, procVars, cfg, horizon, now, ticks, states, storeVars, files, remote, fetchOK,
                   lastCall, lastOp, removed, calls, sweeps, denied>>

\* case <-ticker.C.  processAllPlaylists reads lastChecked without the lock; a
\* read that races with updateState decides as the old or as the new value
\* would, which are the two orders of Tick and PassReturn.
Tick ==
    /\ sched = "loop"
    /\ ticks < horizon
    /\ now' = now + TickPeriod
    /\ ticks' = ticks + 1
    /\ processAllPlaylists(now', FALSE)
    /\ UNCHANGED <<dl, txs, validator, ret, procVars, cfg, horizon, sched, states, storeVars, files, remote, fetchOK, lastCall,
                   lastOp, removed, calls, sweeps, denied>>

Next ==
    \/ InitialRound
    \/ Tick
    \/ \E p \in DOMAIN passes : PassStep(p)

Spec == Init /\ [][Next]_vars

\* the process watching a single playlist, over a longer horizon
InitSched ==
    /\ cfg = OnePlaylist
    /\ horizon = MaxSchedTicks
    /\ remote \in [RemoteIDs -> {<<"v1">>}]
    /\ InitCommon

SpecSched == InitSched /\ [][Next]_vars

(***************************************************************************)
(* The public API called directly, one call at a time, as the tests and    *)
(* cmd/test-downloader do                                                  *)
(***************************************************************************)
Quiet == DOMAIN passes = {}

CallProcessPlaylist(url, name) ==
    /\ Quiet
    /\ calls < MaxCalls
    /\ calls' = calls + 1
    /\ passes' = BagPut(passes, NewPass(name, url, FALSE))
    /\ ret' = NoRet
    /\ UNCHANGED <<dl, txs, validator, procVars, schedVars, storeVars, files, remote, fetchOK, lastCall, lastOp, removed,
                   sweeps, denied>>

CallAddVideo(youtubeID, playlistYoutubeID, playlistTitle) ==
    /\ Quiet
    /\ calls < MaxCalls
    /\ calls' = calls + 1
    /\ \E fault \in {"none", "playlist", "tx"} :
        LET res == AddVideo(playlists, videos, youtubeID, playlistYoutubeID, playlistTitle,
                            now, fault)
        IN  /\ playlists' = res.playlists
            /\ videos' = res.videos
            /\ ret' = [NoRet EXCEPT !.op = "AddVideo", !.arg = <<youtubeID, playlistYoutubeID>>,
                                    !.err = res.err, !.playlists0 = playlists,
                                    !.videos0 = videos]
    /\ lastOp' = "ingest"
    /\ lastCall' = NoCall
    /\ UNCHANGED <<dl, txs, validator, procVars, schedVars, passes, files, remote, fetchOK, removed, sweeps, denied>>

\* Database.ValidateFiles; a failed transaction changes nothing and returns 0
CallValidateFiles ==
    /\ Quiet
    /\ sweeps < MaxSweeps
    /\ sweeps' = sweeps + 1
    /\ \E fail \in BOOLEAN, failed \in SUBSET {r.youtube_id : r \in {x \in videos : HasFilePath(x)}} :
        LET res == ValidateFiles(videos, files, denied, now, failed)
        IN  /\ fail => failed = {}
            /\ videos' = IF fail THEN videos ELSE res.videos
            /\ lastOp' = IF fail THEN "failed" ELSE IF failed # {} THEN "partial" ELSE "validate"
            /\ ret' = [NoRet EXCEPT !.op = "ValidateFiles", !.err = fail,
                                    !.n = IF fail THEN 0 ELSE res.checked, !.ids = failed,
                                    !.playlists0 = playlists, !.videos0 = videos]
    /\ lastCall' = NoCall
    /\ UNCHANGED <<dl, txs, validator, procVars, schedVars, passes, playlists, files, remote, fetchOK, removed, calls, denied>>

\* Validator.CleanupMissingFiles; a failed transaction changes nothing
CallCleanupMissingFiles ==
    /\ Quiet
    /\ sweeps < MaxSweeps
    /\ sweeps' = sweeps + 1
    /\ \E fail \in BOOLEAN,
          failed \in SUBSET {r.youtube_id : r \in {x \in videos : x.validation_status = "missing"}} :
        LET res == CleanupMissingFiles(videos, files, denied, failed)
        IN  /\ fail => failed = {}
            /\ videos' = IF fail THEN videos ELSE res.videos
            /\ lastOp' = IF fail THEN "failed"
                          ELSE IF failed # {} THEN "partialCleanup" ELSE "cleanup"
            /\ ret' = [NoRet EXCEPT !.op = "CleanupMissingFiles", !.err = fail,
                                    !.n = IF fail THEN 0 ELSE res.deleted, !.ids = failed,
                                    !.playlists0 = playlists, !.videos0 = videos]
    /\ removed' = removed \cup (VideoKeys(videos) \ VideoKeys(videos'))
    /\ lastCall' = NoCall
    /\ UNCHANGED <<dl, txs, validator, procVars, schedVars, passes, playlists, files, remote, fetchOK, calls, denied>>

\* somebody removes a downloaded file from the disk
DeleteFile(path) ==
    /\ Quiet
    /\ path \in files
    /\ files' = files \ {path}
    /\ lastOp' = "delete"
    /\ lastCall' = NoCall
    /\ ret' = NoRet
    /\ UNCHANGED <<dl, txs, validator, procVars, schedVars, passes, storeVars, remote, fetchOK, removed, calls, sweeps, denied>>

\* somebody puts back the file of a video that the sweep has just found missing
RestoreFile(path) ==
    /\ Quiet
    /\ lastOp \in {"validate", "partial"}
    /\ sweeps < MaxSweeps
    /\ sweeps' = sweeps + 1
    /\ path \notin files
    /\ \E r \in videos : r.file_path = path /\ r.validation_status = "missing"
    /\ files' = files \cup {path}
    /\ lastOp' = "restore"
    /\ lastCall' = NoCall
    /\ ret' = NoRet
    /\ UNCHANGED <<dl, txs, validator, procVars, schedVars, passes, storeVars, remote, fetchOK, removed,
                   calls, denied>>

\* somebody takes away the permission to look a downloaded file up
DenyFile(path) ==
    /\ Quiet
    /\ path \in files \ denied
    /\ denied' = denied \cup {path}
    /\ lastOp' = "deny"
    /\ lastCall' = NoCall
    /\ ret' = NoRet
    /\ UNCHANGED <<dl, txs, validator, procVars, schedVars, passes, storeVars, files, remote, fetchOK, removed, calls, sweeps>>

InitSeq ==
    /\ cfg = TwoPlaylists
    /\ horizon = 0
    /\ \E l \in RawListings : remote = [id \in RemoteIDs |-> IF id = <<"PLa">> THEN l ELSE <<"v1">>]
    /\ InitCommon

NextSeq ==
    \/ \E url \in CallUrls, name \in Names : CallProcessPlaylist(url, name)
    \/ \E v \in VideoIDs, name \in DOMAIN cfg :
          CallAddVideo(v, extractPlaylistID(cfg[name]), name)
    \/ \E p \in DOMAIN passes : PassStep(p)

SpecSeq == InitSeq /\ [][NextSeq]_vars

(***************************************************************************)
(* One configured playlist ingested by direct calls, its files deleted     *)
(* behind the program's back, and the validation calls                     *)
(***************************************************************************)
InitValid ==
    /\ cfg = OnePlaylist
    /\ horizon = 0
    /\ remote = [id \in RemoteIDs |-> <<"v1", "", "v2">>]
    /\ InitCommon

NextValid ==
    \/ \E name \in DOMAIN cfg : CallProcessPlaylist(cfg[name], name)
    \/ \E p \in DOMAIN passes : PassStep(p)
    \/ CallValidateFiles
    \/ CallCleanupMissingFiles
    \/ \E path \in files : DeleteFile(path)
    \/ \E path \in files : DenyFile(path)
    \/ \E path \in {r.file_path : r \in videos} : RestoreFile(path)

SpecValid == InitValid /\ [][NextValid]_vars

(***************************************************************************)
(* playlistState on its own: its two methods under a clock that may jump   *)
(***************************************************************************)

CadenceAdvance(d) ==
    /\ ticks < MaxAdvances
    /\ ticks' = ticks + 1
    /\ now' = now + d
    /\ UNCHANGED <<dl, txs, validator, ret, procVars, cfg, horizon, sched, states, round, calc, passes, storeVars, files, remote,
                   fetchOK, lastCall, lastOp, removed, calls, sweeps, denied>>

CadenceUpdate(u, changed) ==
    /\ states' = [states EXCEPT ![u] = updateState(@, changed, now)]
    /\ UNCHANGED <<dl, txs, validator, ret, procVars, cfg, horizon, now, ticks, sched, round, calc, passes, storeVars, files,
                   remote, fetchOK, lastCall, lastOp, removed, calls, sweeps, denied>>

CadenceCheck(u) ==
    /\ calc' = [calc EXCEPT ![u] = Calculated(states[u], now)]
    /\ UNCHANGED <<dl, txs, validator, ret, procVars, cfg, horizon, now, ticks, sched, states, round, passes, storeVars, files,
                   remote, fetchOK, lastCall, lastOp, removed, calls, sweeps, denied>>

InitCadence ==
    /\ cfg = OnePlaylist
    /\ horizon = 0
    /\ remote = [id \in RemoteIDs |-> <<>>]
    /\ InitCommon

NextCadence ==
    \/ \E d \in {TickPeriod, ShortInterval, Day - TickPeriod} : CadenceAdvance(d)
    \/ \E u \in CfgUrls(cfg), changed \in BOOLEAN : CadenceUpdate(u, changed)
    \/ \E u \in CfgUrls(cfg) : CadenceCheck(u)

SpecCadence == InitCadence /\ [][NextCadence]_vars

(***************************************************************************)
(* The cadence state at the granularity of its lock: processAllPlaylists   *)
(* statement by statement and updateState as lock, write and unlock        *)
(***************************************************************************)
\* the configured names in the order the round visits them
Order(c) ==
    LET Configured(n) == n \in DOMAIN c
    IN  SelectSeq(NameOrder, Configured)

\* case <-ticker.C: processAllPlaylists(force = false) takes now and enters its loop
DriverTick ==
    /\ sched = "loop"
    /\ driver.pc = "idle"
    /\ ticks < horizon
    /\ now' = now + TickPeriod
    /\ ticks' = ticks + 1
    /\ driver' = [pc |-> "read", i |-> 1, seen |-> ZeroTime]
    /\ round' = [kind |-> "tick", at |-> now', launched |-> {}]
    /\ UNCHANGED <<dl, txs, validator, ret, mu, access, shutdown, killed, cfg, horizon, sched, states, calc, passes,
                   storeVars, files, remote, fetchOK, lastCall, lastOp, removed, calls, sweeps,
                   denied>>

\* the left operand of the due test, now.Sub(state.lastChecked): lastChecked is
\* read without the lock; a read that races with the write of updateState may
\* see the old value or the one being written
DriverRead ==
    /\ driver.pc = "read"
    /\ LET u == cfg[Order(cfg)[driver.i]]
           writing == \E p \in DOMAIN passes : p.pc = "locked" /\ p.url = u
       IN  /\ \E v \in {states[u].lastChecked} \cup (IF writing THEN {now} ELSE {}) :
                 driver' = [driver EXCEPT !.pc = "calc", !.seen = v]
           /\ access' = [by |-> "driver", field |-> "lastChecked", kind |-> "read",
                         holder |-> mu[u]]
    /\ UNCHANGED <<dl, txs, validator, ret, mu, shutdown, killed, schedVars, passes, storeVars, files, remote, fetchOK,
                   lastCall, lastOp, removed, calls, sweeps, denied>>

\* the right operand, state.calculateInterval(), which locks, reads lastChange
\* and unlocks; then the comparison and the go statement
DriverCalc ==
    /\ driver.pc = "calc"
    /\ LET n == Order(cfg)[driver.i]
           u == cfg[n]
           due == Sub(now, driver.seen) >= calculateInterval(states[u], now)
       IN  /\ mu[u] = "free"
           /\ access' = [by |-> "driver", field |-> "lastChange", kind |-> "read",
                         holder |-> "driver"]
           /\ due => BagSize(passes) < MaxPasses
           /\ passes' = IF due THEN BagPut(passes, NewPass(n, u, TRUE)) ELSE passes
           /\ round' = [round EXCEPT !.launched = IF due THEN @ \cup {n} ELSE @]
    /\ driver' = IF driver.i < Len(Order(cfg))
                 THEN [pc |-> "read", i |-> driver.i + 1, seen |-> ZeroTime]
                 ELSE DriverIdle
    /\ UNCHANGED <<dl, txs, validator, ret, mu, shutdown, killed, cfg, horizon, now, ticks, sched, states, calc,
                   storeVars, files, remote, fetchOK, lastCall, lastOp, removed, calls, sweeps,
                   denied>>

\* updateState: ps.mu.Lock()
PassLock(p) ==
    /\ p.pc = "return"
    /\ p.viaScheduler
    /\ mu[p.url] = "free"
    /\ mu' = [mu EXCEPT ![p.url] = "pass"]
    /\ passes' = Stepped(passes, p, [p EXCEPT !.pc = "locked"])
    /\ UNCHANGED <<dl, txs, validator, ret, driver, access, shutdown, killed, schedVars, storeVars, files, remote,
                   fetchOK, lastCall, lastOp, removed, calls, sweeps, denied>>

\* updateState: the assignments and the deferred Unlock; the goroutine ends
PassWrite(p) ==
    /\ p.pc = "locked"
    /\ states' = [states EXCEPT ![p.url] = updateState(@, p.changed, now)]
    /\ access' = [by |-> "pass", field |-> "lastChecked", kind |-> "write",
                  holder |-> mu[p.url]]
    /\ mu' = [mu EXCEPT ![p.url] = "free"]
    /\ passes' = BagTake(passes, p)
    /\ UNCHANGED <<dl, txs, validator, ret, driver, shutdown, killed, cfg, horizon, now, ticks, sched, round, calc,
                   storeVars, files, remote, fetchOK, lastCall, lastOp, removed, calls, sweeps,
                   denied>>

InitLock ==
    /\ cfg = OnePlaylist
    /\ horizon = MaxTicks
    /\ remote = [id \in RemoteIDs |-> <<"v1">>]
    /\ InitCommon

NextLock ==
    \/ InitialRound
    \/ DriverTick
    \/ DriverRead
    \/ DriverCalc
    \/ \E p \in DOMAIN passes :
          PassStart(p) \/ PassExists(p) \/ PassAdd(p) \/ PassUpdate(p) \/ PassLock(p) \/ PassWrite(p)

SpecLock == InitLock /\ [][NextLock]_vars

(***************************************************************************)
(* Shutdown: main waits for a signal, cancels the context, waits for the   *)
(* scheduler goroutine and returns                                         *)
(***************************************************************************)
\* <-sigCh and cancel(): ctx.Done() is closed from now on
Signal ==
    /\ shutdown = "no"
    /\ shutdown' = "requested"
    /\ UNCHANGED <<dl, txs, validator, ret, mu, driver, access, killed, schedVars, passes, storeVars, files, remote,
                   fetchOK, lastCall, lastOp, removed, calls, sweeps, denied>>

\* case <-ctx.Done() of the select in runScheduler; when a tick is ready as
\* well the select may take either case, so Tick stays enabled beside this
SchedulerStop ==
    /\ sched = "loop"
    /\ shutdown = "requested"
    /\ sched' = "stopped"
    /\ UNCHANGED <<dl, txs, validator, ret, procVars, cfg, horizon, now, ticks, states, round, calc, passes, storeVars,
                   files, remote, fetchOK, lastCall, lastOp, removed, calls, sweeps, denied>>

\* a main that would wait for the passes as well
MainExitWaits ==
    /\ shutdown = "requested"
    /\ sched = "stopped"
    /\ passes = EmptyBag
    /\ shutdown' = "complete"
    /\ killed' = 0
    /\ UNCHANGED <<dl, txs, validator, ret, mu, driver, access, schedVars, passes, storeVars, files, remote, fetchOK,
                   lastCall, lastOp, removed, calls, sweeps, denied>>

\* wg.Wait() returns once runScheduler has returned; main logs "Shutdown
\* complete." and returns, which ends the process and every goroutine in it
MainExit ==
    /\ shutdown = "requested"
    /\ sched = "stopped"
    /\ shutdown' = "complete"
    /\ killed' = BagSize(passes)
    /\ passes' = EmptyBag
    /\ UNCHANGED <<dl, txs, validator, ret, mu, driver, access, schedVars, storeVars, files, remote, fetchOK, lastCall,
                   lastOp, removed, calls, sweeps, denied>>

InitStop ==
    /\ cfg = OnePlaylist
    /\ horizon = MaxTicks
    /\ remote = [id \in RemoteIDs |-> <<"v1">>]
    /\ InitCommon

NextStop ==
    \/ InitialRound
    \/ Tick
    \/ \E p \in DOMAIN passes : PassStep(p)
    \/ Signal
    \/ SchedulerStop
    \/ MainExit

SpecStop == InitStop /\ [][NextStop]_vars

(***************************************************************************)
(* The store's methods called one after another under a moving clock       *)
(***************************************************************************)

\* Database.UpdateFileInfo; it returns the error of its one Exec
CallUpdateFileInfo(youtubeID, filePath, fileSize) ==
    /\ Quiet
    /\ sweeps < MaxSweeps
    /\ sweeps' = sweeps + 1
    /\ \E fail \in BOOLEAN :
        /\ videos' = IF fail THEN videos
                      ELSE UpdateFileInfo(videos, youtubeID, filePath, fileSize, now)
        /\ ret' = [NoRet EXCEPT !.op = "UpdateFileInfo", !.arg = <<youtubeID, filePath, fileSize>>,
                                !.err = fail, !.playlists0 = playlists, !.videos0 = videos]
    /\ lastOp' = "update"
    /\ lastCall' = NoCall
    /\ UNCHANGED <<dl, txs, validator, procVars, schedVars, passes, playlists, files, remote, fetchOK, removed,
                   calls, denied>>

\* Database.GetVideosNeedingValidation; a failed query returns no ids
CallGetVideosNeedingValidation(maxAge) ==
    /\ Quiet
    /\ \E fail \in BOOLEAN :
        ret' = [NoRet EXCEPT !.op = "GetVideosNeedingValidation", !.arg = <<maxAge>>,
                             !.err = fail,
                             !.ids = IF fail THEN {}
                                     ELSE GetVideosNeedingValidation(videos, now, maxAge),
                             !.playlists0 = playlists, !.videos0 = videos]
    /\ lastOp' = "query"
    /\ lastCall' = NoCall
    /\ UNCHANGED <<dl, txs, validator, procVars, schedVars, passes, storeVars, files, remote, fetchOK, removed,
                   calls, sweeps, denied>>

\* the tests' "UPDATE videos SET last_validated = NULL"
ClearLastValidated ==
    /\ Quiet
    /\ \E r \in videos : r.last_validated # NullTime
    /\ videos' = {[r EXCEPT !.last_validated = NullTime] : r \in videos}
    /\ lastOp' = "clear"
    /\ lastCall' = NoCall
    /\ ret' = NoRet
    /\ UNCHANGED <<dl, txs, validator, procVars, schedVars, passes, playlists, files, remote, fetchOK, removed,
                   calls, sweeps, denied>>

\* time passes between two calls
AgeAdvance(d) ==
    /\ Quiet
    /\ ticks < MaxTicks
    /\ ticks' = ticks + 1
    /\ now' = now + d
    /\ ret' = NoRet
    /\ UNCHANGED <<dl, txs, validator, procVars, cfg, horizon, sched, states, round, calc, passes, storeVars, files,
                   remote, fetchOK, lastCall, lastOp, removed, calls, sweeps, denied>>

InitAge ==
    /\ cfg = OnePlaylist
    /\ horizon = 0
    /\ remote = [id \in RemoteIDs |-> <<>>]
    /\ InitCommon

NextAge ==
    \/ \E v \in VideoIDs, name \in DOMAIN cfg :
          CallAddVideo(v, extractPlaylistID(cfg[name]), name)
    \/ \E v \in VideoIDs, name \in DOMAIN cfg :
          CallUpdateFileInfo(v, DownloadPath(name, v), FileSizeOf(v))
    \/ CallValidateFiles
    \/ ClearLastValidated
    \/ \E d \in {ShortInterval + TickPeriod, Day - TickPeriod} : AgeAdvance(d)
    \/ \E maxAge \in {ShortInterval, Day} : CallGetVideosNeedingValidation(maxAge)

SpecAge == InitAge /\ [][NextAge]_vars

(***************************************************************************)
(* The Validator service: Start, its loop, RunValidation and Stop          *)
(***************************************************************************)
ValidationMaxAge == 7 * Day

\* NewValidator(db, outputDir, checkInterval) and Start, which begins with a
\* validation pass
ValidatorStart(checkInterval) ==
    /\ validator.pc = "off"
    /\ validator' = [validator EXCEPT !.pc = "query", !.interval = checkInterval,
                                      !.late = IF validator.stop THEN @ + 1 ELSE @]
    /\ ret' = NoRet
    /\ UNCHANGED <<dl, txs, procVars, schedVars, passes, storeVars, files, remote, fetchOK, lastCall,
                   lastOp, removed, calls, sweeps, denied>>

\* a RunValidation that sweeps whatever its query returns
RunValidationQueryAlways ==
    /\ validator.pc = "query"
    /\ \E fail \in BOOLEAN :
        LET found == GetVideosNeedingValidation(videos, now, ValidationMaxAge)
            over == [validator EXCEPT !.pc = "select", !.ticker = TRUE, !.ids = {}]
        IN  validator' = IF fail THEN [over EXCEPT !.out = "queryError"]
                         ELSE [validator EXCEPT !.pc = "sweep", !.ids = found]
    /\ ret' = NoRet
    /\ UNCHANGED <<dl, txs, procVars, schedVars, passes, storeVars, files, remote, fetchOK, lastCall,
                   lastOp, removed, calls, sweeps, denied>>

\* RunValidation up to its call of ValidateFiles: the query fails, or finds
\* nothing and the pass ends, or finds something and the pass goes on
RunValidationQuery ==
    /\ validator.pc = "query"
    /\ \E fail \in BOOLEAN :
        LET found == GetVideosNeedingValidation(videos, now, ValidationMaxAge)
            over == [validator EXCEPT !.pc = "select", !.ticker = TRUE, !.ids = {}]
        IN  validator' = IF fail THEN [over EXCEPT !.out = "queryError"]
                         ELSE IF found = {} THEN [over EXCEPT !.out = "nothing"]
                         ELSE [validator EXCEPT !.pc = "sweep", !.ids = found]
    /\ ret' = NoRet
    /\ UNCHANGED <<dl, txs, procVars, schedVars, passes, storeVars, files, remote, fetchOK, lastCall,
                   lastOp, removed, calls, sweeps, denied>>

\* the rest of RunValidation: ValidateFiles and the log of its result
RunValidationSweep ==
    /\ validator.pc = "sweep"
    /\ \E fail \in BOOLEAN, failed \in SUBSET {r.youtube_id : r \in {x \in videos : HasFilePath(x)}} :
        LET res == ValidateFiles(videos, files, denied, now, failed)
        IN  /\ fail => failed = {}
            /\ videos' = IF fail THEN videos ELSE res.videos
            /\ lastOp' = IF fail THEN "failed" ELSE IF failed # {} THEN "partial" ELSE "validate"
            /\ ret' = [NoRet EXCEPT !.op = "ValidateFiles", !.err = fail,
                                    !.n = IF fail THEN 0 ELSE res.checked, !.ids = failed,
                                    !.playlists0 = playlists, !.videos0 = videos]
            /\ validator' = [validator EXCEPT !.pc = "select", !.ticker = TRUE,
                                              !.out = IF fail THEN "sweepError" ELSE "swept"]
    /\ lastCall' = NoCall
    /\ UNCHANGED <<dl, txs, procVars, schedVars, passes, playlists, files, remote, fetchOK, removed,
                   calls, sweeps, denied>>

\* checkInterval has passed: the ticker puts a tick in its channel, which
\* holds one tick at most
ValidatorTick ==
    /\ validator.ticker
    /\ validator.pc # "returned"
    /\ ticks < MaxTicks
    /\ ticks' = ticks + 1
    /\ now' = now + validator.interval
    /\ validator' = [validator EXCEPT !.tick = TRUE]
    /\ ret' = NoRet
    /\ UNCHANGED <<dl, txs, procVars, cfg, horizon, sched, states, round, calc, passes, storeVars, files,
                   remote, fetchOK, lastCall, lastOp, removed, calls, sweeps, denied>>

\* case <-ticker.C of the select in Start
ValidatorSelectTick ==
    /\ validator.pc = "select"
    /\ validator.tick
    /\ validator' = [validator EXCEPT !.pc = "query", !.tick = FALSE,
                                      !.late = IF validator.stop THEN @ + 1 ELSE @]
    /\ ret' = NoRet
    /\ UNCHANGED <<dl, txs, procVars, schedVars, passes, storeVars, files, remote, fetchOK, lastCall,
                   lastOp, removed, calls, sweeps, denied>>

\* a Start that gives up as soon as stopChan is closed, wherever it is
ValidatorSelectStopAbort ==
    /\ validator.pc \in {"select", "query", "sweep"}
    /\ validator.stop
    /\ validator' = [validator EXCEPT !.pc = "returned"]
    /\ ret' = NoRet
    /\ UNCHANGED <<dl, txs, procVars, schedVars, passes, storeVars, files, remote, fetchOK, lastCall,
                   lastOp, removed, calls, sweeps, denied>>

\* case <-v.stopChan of the select in Start; the deferred ticker.Stop() runs
ValidatorSelectStop ==
    /\ validator.pc = "select"
    /\ validator.stop
    /\ validator' = [validator EXCEPT !.pc = "returned"]
    /\ ret' = NoRet
    /\ UNCHANGED <<dl, txs, procVars, schedVars, passes, storeVars, files, remote, fetchOK, lastCall,
                   lastOp, removed, calls, sweeps, denied>>

\* Stop: close(v.stopChan)
ValidatorStop ==
    /\ ~validator.stop
    /\ validator' = [validator EXCEPT !.stop = TRUE, !.stopAt = validator.pc]
    /\ UNCHANGED <<dl, txs, ret, procVars, schedVars, passes, storeVars, files, remote, fetchOK, lastCall,
                   lastOp, removed, calls, sweeps, denied>>

InitValidator ==
    /\ cfg = OnePlaylist
    /\ horizon = 0
    /\ remote = [id \in RemoteIDs |-> <<>>]
    /\ InitCommon

NextValidator ==
    \/ \E v \in VideoIDs, name \in DOMAIN cfg :
          CallAddVideo(v, extractPlaylistID(cfg[name]), name)
    \/ \E d \in {Day, ValidationMaxAge + Day} : ValidatorStart(d)
    \/ RunValidationQuery
    \/ RunValidationSweep
    \/ ValidatorTick
    \/ ValidatorSelectTick
    \/ ValidatorSelectStop
    \/ ValidatorStop

SpecValidator == InitValidator /\ [][NextValidator]_vars

\* the pass that has begun goes on, and a select that finds stopChan closed
\* again and again takes that case in the end
SpecValidatorFair ==
    /\ SpecValidator
    /\ WF_vars(RunValidationQuery)
    /\ WF_vars(RunValidationSweep)
    /\ SF_vars(ValidatorSelectStop)

(***************************************************************************)
(* The process as main() runs it, with files disappearing from the disk    *)
(***************************************************************************)
NextRun ==
    \/ NextStop
    \/ \E path \in files : DeleteFile(path)

\* the scheduler goroutine and the goroutines of the passes keep running
SpecRun ==
    /\ InitStop
    /\ [][NextRun]_vars
    /\ WF_vars(InitialRound \/ Tick \/ \E p \in DOMAIN passes : PassStep(p))

(***************************************************************************)
(* downloadVideo: the tool's output and the path read off it.  A line is   *)
(* what strings.Split(line, ":") makes of it, a sequence of pieces; a      *)
(* piece is a sequence of tokens, of which " " is white space.             *)
(***************************************************************************)
TagExtract == <<"[ExtractAudio] Destination">>
TagDownload == <<"[download] Destination">>

OutputLines ==
    {<<TagDownload, <<" ", "a.webm">>>>,
     <<TagExtract, <<" ", "a.mp3">>>>,
     <<TagExtract, <<" ", "C">>, <<"a.mp3", " ">>>>,
     <<TagDownload, <<" ">>>>,
     <<<<"[ExtractAudio] Not converting">>>>,
     <<<<"[download] 100%">>, <<" ", "a.mp3">>>>}

ToolOutputs == UNION {[1..n -> OutputLines] : n \in 0..MaxLines}

\* strings.TrimSpace
TrimSpace(piece) ==
    LET idx == {i \in 1..Len(piece) : piece[i] # " "}
    IN  IF idx = {} THEN <<>>
        ELSE SubSeq(piece, CHOOSE i \in idx : \A j \in idx : i <= j, SetMax(idx))

\* strings.Contains(line, "[ExtractAudio] Destination:") or the same for
\* "[download] Destination:"
IsAnnouncement(line) == Len(line) >= 2 /\ line[1] \in {TagExtract, TagDownload}

\* a scan that stops at the first announcement
RECURSIVE ParseDestinationFirst(_, _)
ParseDestinationFirst(lines, filePath) ==
    IF lines = <<>> THEN filePath
    ELSE IF IsAnnouncement(Head(lines)) THEN TrimSpace(Head(lines)[2])
    ELSE ParseDestinationFirst(Tail(lines), filePath)

\* the loop over the lines of the output: every announcement overwrites
\* filePath with the trimmed piece after its first colon
RECURSIVE ParseDestination(_, _)
ParseDestination(lines, filePath) ==
    IF lines = <<>> THEN filePath
    ELSE ParseDestination(Tail(lines),
            IF IsAnnouncement(Head(lines)) THEN TrimSpace(Head(lines)[2]) ELSE filePath)

StatSize(path) == IF path = <<"a.mp3">> THEN 11 ELSE 22

\* what downloadVideo returns once the tool has exited with status 0
downloadVideo(output, fs) ==
    LET filePath == ParseDestination(output, <<>>)
    IN  IF filePath = <<>> THEN [path |-> <<>>, size |-> 0, err |-> "nopath"]
        ELSE IF filePath \notin fs THEN [path |-> <<>>, size |-> 0, err |-> "stat"]
        ELSE [path |-> filePath, size |-> StatSize(filePath), err |-> "none"]

\* cmd.Run(): the tool prints its lines and leaves files behind
RunTool(output, written) ==
    /\ dl.pc = "idle"
    /\ dl' = [dl EXCEPT !.pc = "ran", !.output = output]
    /\ files' = written
    /\ UNCHANGED <<cfg, horizon, now, ticks, sched, states, passes, playlists, videos,
                   remote, round, calc, fetchOK, lastCall, lastOp, removed, calls, sweeps,
                   denied, ret, validator, txs, procVars>>

\* the rest of downloadVideo: the scan of the output and os.Stat
ParseOutput ==
    /\ dl.pc = "ran"
    /\ LET res == downloadVideo(dl.output, files)
       IN  dl' = [dl EXCEPT !.pc = "done", !.path = res.path, !.size = res.size,
                            !.err = res.err]
    /\ UNCHANGED <<cfg, horizon, now, ticks, sched, states, passes, playlists, videos, files,
                   remote, round, calc, fetchOK, lastCall, lastOp, removed, calls, sweeps,
                   denied, ret, validator, txs, procVars>>

InitParse ==
    /\ cfg = OnePlaylist
    /\ horizon = 0
    /\ remote = [id \in RemoteIDs |-> <<>>]
    /\ InitCommon

NextParse ==
    \/ \E output \in ToolOutputs, written \in SUBSET {<<"a.webm">>, <<"a.mp3">>, <<"C">>} : RunTool(output, written)
    \/ ParseOutput

SpecParse == InitParse /\ [][NextParse]_vars

(***************************************************************************)
(* The scheduler left running without end.  Only the distance between the  *)
(* clock and the instants in playlistState matters to it, so a tick is     *)
(* written here as every stored instant getting one TickPeriod older under *)
(* a clock that stands still; an instant stops ageing where isDue          *)
(* (lastChecked, at LongInterval) and calculateInterval (lastChange, at    *)
(* Day) no longer tell it from an older one.                               *)
(***************************************************************************)
LiveNow == Day + 1

Older(t, floor) ==
    IF t = ZeroTime THEN ZeroTime
    ELSE IF t - TickPeriod < floor THEN floor ELSE t - TickPeriod

Aged(ps) ==
    [ps EXCEPT !.lastChecked = Older(@, LiveNow - LongInterval),
               !.lastChange = Older(@, LiveNow - Day)]

\* case <-ticker.C, one TickPeriod after the previous one
TickLive ==
    /\ sched = "loop"
    /\ LET aged == [u \in DOMAIN states |-> Aged(states[u])]
           due == {n \in DOMAIN cfg : isDue(aged[cfg[n]], now, FALSE)}
       IN  /\ BagSize(passes) + Cardinality(due) <= MaxPasses
           /\ states' = aged
           /\ passes' = LaunchAll(passes, due, 1)
           /\ round' = [kind |-> "tick", at |-> now, launched |-> due]
    /\ UNCHANGED <<dl, txs, validator, ret, procVars, cfg, horizon, now, ticks, sched, calc, storeVars,
                   files, remote, fetchOK, lastCall, lastOp, removed, calls, sweeps, denied>>

\* two playlists that list nothing for the time being; the second may have
\* an empty url
InitLive ==
    /\ cfg \in {TwoPlaylists, [n \in {"jazz", "chill"} |-> IF n = "jazz" THEN UrlA ELSE UrlEmpty]}
    /\ horizon = 0
    /\ remote = [id \in RemoteIDs |-> <<>>]
    /\ now = LiveNow
    /\ InitConstructed

\* a pass over a playlist that lists nothing is over after its first step
NextLive ==
    \/ InitialRound
    \/ TickLive
    \/ \E p \in DOMAIN passes : PassStart(p)
    \/ \E p \in DOMAIN passes : PassReturn(p)

\* WF_vars(\E p \in DOMAIN passes : p.name = n /\ PassStart(p)) written out:
\* the first step of a pass is enabled exactly while the pass is at "start"
StartFair(n) ==
    \/ []<>(~\E p \in DOMAIN passes : p.name = n /\ p.pc = "start")
    \/ []<><<\E p \in DOMAIN passes : p.name = n /\ PassStart(p)>>_vars

\* no shutdown is requested, the ticker keeps firing and every pass goes on
\* to its return
SpecLive ==
    /\ InitLive
    /\ [][NextLive]_vars
    /\ WF_vars(InitialRound)
    /\ WF_vars(TickLive)
    /\ \A n \in Names : WF_vars(\E p \in DOMAIN passes : p.name = n /\ PassReturn(p))
    /\ \A n \in Names : StartFair(n)

(***************************************************************************)
(* GetOrCreatePlaylist statement by statement, for goroutines that call it *)
(* at the same time: each call is a transaction of its own on the shared   *)
(* database file.  The file lets one transaction write at a time, and the  *)
(* column youtube_id of playlists is UNIQUE.                               *)
(***************************************************************************)
\* a UNIQUE index that accepts every key
UniqueViolationNever(pls, youtubeID) == FALSE

\* playlists.youtube_id TEXT UNIQUE NOT NULL: the key is already in the table
UniqueViolation(pls, youtubeID) == PlaylistRows(pls, youtubeID) # {}

\* another open transaction has written and not ended yet
WriterBusy(c) == \E d \in Callers \ {c} : txs[d].lock = "reserved"

\* the deferred tx.Rollback() of a call that returns an error
RolledBack(t, err) ==
    [t EXCEPT !.pc = "failed", !.err = err, !.lock = "none", !.row = NoRow, !.created = FALSE]

\* d.db.Begin()
TxBegin(c, youtubeID, title) ==
    /\ txs[c].pc = "idle"
    /\ \E fail \in BOOLEAN :
          txs' = [txs EXCEPT ![c] =
                    IF fail THEN RolledBack([@ EXCEPT !.youtubeID = youtubeID, !.title = title],
                                            "begin")
                    ELSE [@ EXCEPT !.pc = "select", !.youtubeID = youtubeID, !.title = title]]
    /\ UNCHANGED <<dl, cfg, horizon, now, ticks, sched, states, passes, playlists, videos, files,
                   remote, round, calc, fetchOK, lastCall, lastOp, removed, calls, sweeps,
                   denied, ret, validator, procVars>>

\* SELECT ... FROM playlists WHERE youtube_id = ?
TxSelect(c) ==
    /\ txs[c].pc = "select"
    /\ \E fail \in BOOLEAN :
          LET found == PlaylistRows(playlists, txs[c].youtubeID)
          IN  txs' = [txs EXCEPT ![c] =
                        IF fail THEN RolledBack(@, "query")
                        ELSE IF found # {}
                        THEN [@ EXCEPT !.pc = "commit", !.lock = "shared",
                                       !.row = CHOOSE r \in found : TRUE]
                        ELSE [@ EXCEPT !.pc = "insert", !.lock = "shared"]]
    /\ UNCHANGED <<dl, cfg, horizon, now, ticks, sched, states, passes, playlists, videos, files,
                   remote, round, calc, fetchOK, lastCall, lastOp, removed, calls, sweeps,
                   denied, ret, validator, procVars>>

\* INSERT INTO playlists ... after sql.ErrNoRows, and LastInsertId
TxInsert(c) ==
    /\ txs[c].pc = "insert"
    /\ \E fail \in BOOLEAN :
          txs' = [txs EXCEPT ![c] =
                    IF fail \/ WriterBusy(c) \/ UniqueViolation(playlists, txs[c].youtubeID)
                    THEN RolledBack(@, "insert")
                    ELSE [@ EXCEPT !.pc = "commit", !.lock = "reserved", !.created = TRUE,
                                   !.row = [id |-> SetMax({r.id : r \in playlists}) + 1,
                                            youtube_id |-> txs[c].youtubeID,
                                            title |-> txs[c].title, video_count |-> 0]]]
    /\ UNCHANGED <<dl, cfg, horizon, now, ticks, sched, states, passes, playlists, videos, files,
                   remote, round, calc, fetchOK, lastCall, lastOp, removed, calls, sweeps,
                   denied, ret, validator, procVars>>

\* tx.Commit() and the return of the row
TxCommit(c) ==
    /\ txs[c].pc = "commit"
    /\ \E fail \in BOOLEAN :
          IF fail
          THEN /\ txs' = [txs EXCEPT ![c] = RolledBack(@, "commit")]
               /\ UNCHANGED playlists
          ELSE /\ txs' = [txs EXCEPT ![c] = [@ EXCEPT !.pc = "done", !.lock = "none"]]
               /\ playlists' = IF txs[c].created THEN playlists \cup {txs[c].row}
                               ELSE playlists
    /\ UNCHANGED <<dl, cfg, horizon, now, ticks, sched, states, passes, videos, files,
                   remote, round, calc, fetchOK, lastCall, lastOp, removed, calls, sweeps,
                   denied, ret, validator, procVars>>

\* the caller has its answer and may call again
TxReturn(c) ==
    /\ txs[c].pc \in {"done", "failed"}
    /\ txs' = [txs EXCEPT ![c] = NoTx]
    /\ UNCHANGED <<dl, cfg, horizon, now, ticks, sched, states, passes, playlists, videos, files,
                   remote, round, calc, fetchOK, lastCall, lastOp, removed, calls, sweeps,
                   denied, ret, validator, procVars>>

\* Database.getOrCreatePlaylist(tx, youtubeID, title), the helper that works
\* inside the caller's transaction: the table as the transaction then sees
\* it, the id returned and the error flag.  After the SELECT and the UPDATE
\* of the title the code goes on to the INSERT whether or not it found a row.
getOrCreatePlaylist(pls, youtubeID, title) ==
    LET found == PlaylistRows(pls, youtubeID)
        titled == (pls \ found) \cup {[r EXCEPT !.title = title] : r \in found}
    IN  IF UniqueViolation(titled, youtubeID)
        THEN [playlists |-> titled, id |-> 0, err |-> TRUE]
        ELSE [playlists |-> InsertPlaylist(titled, youtubeID, title),
              id |-> SetMax({r.id : r \in titled}) + 1, err |-> FALSE]

\* db.Begin(), getOrCreatePlaylist(tx, ...) and tx.Commit() as the test does
\* it; a caller that gets an error does not commit
CallGetOrCreatePlaylistTx(youtubeID, title) ==
    /\ \A c \in Callers : txs[c].pc = "idle"
    /\ LET res == getOrCreatePlaylist(playlists, youtubeID, title)
       IN  /\ playlists' = IF res.err THEN playlists ELSE res.playlists
           /\ ret' = [NoRet EXCEPT !.op = "getOrCreatePlaylist", !.arg = <<youtubeID, title>>,
                                   !.err = res.err, !.n = res.id, !.playlists0 = playlists]
    /\ UNCHANGED <<cfg, horizon, now, ticks, sched, states, passes, videos, files,
                   remote, round, calc, fetchOK, lastCall, lastOp, removed, calls, sweeps,
                   denied, validator, txs, dl, procVars>>

InitRace ==
    /\ cfg = TwoPlaylists
    /\ horizon = 0
    /\ remote = [id \in RemoteIDs |-> <<>>]
    /\ InitCommon

NextRace ==
    \/ \E c \in Callers, url \in {UrlA, UrlADirect, UrlB}, name \in Names :
          TxBegin(c, extractPlaylistID(url), name)
    \/ \E c \in Callers : TxSelect(c)
    \/ \E c \in Callers : TxInsert(c)
    \/ \E c \in Callers : TxCommit(c)
    \/ \E c \in Callers : TxReturn(c)
    \/ \E name \in Names : CallGetOrCreatePlaylistTx(extractPlaylistID(UrlA), name)

SpecRace == InitRace /\ [][NextRace]_vars

(***************************************************************************)
(* Properties                                                              *)
(***************************************************************************)
\* a direct ProcessPlaylist call that listed its playlist and has run to its return
Completed(p) == p.pc = "return" /\ ~p.viaScheduler /\ p.err = "none"

\* C1: over any execution of the scheduler, for every item identifier at most
\* one fetch by downloadVideo completes successfully.
C1_FetchedAtMostOnce == \A v \in VideoIDs : fetchOK[v] <= 1

\* C2: at any time at most one ingestion pass is in flight for a given
\* playlist, whatever the duration of a pass relative to the one-minute tick.
C2_OnePassPerPlaylist == \A u \in CfgUrls(cfg) : InFlightFor(passes, u) <= 1

\* C3: after any sequence of AddVideo and ingestion calls, those of concurrently
\* running passes and re-adds under another playlist included, every playlist's
\* video_count equals the number of video rows that reference the playlist.
C3_CountMatchesRows == \A r \in playlists : r.video_count = CountVideos(videos, r.id)

\* C4: per-item failure isolation.  When a direct ProcessPlaylist call returns,
\* every listed item has been attempted, the rows added by the call are exactly
\* the items it fetched and persisted, callback(id, true) was invoked exactly
\* once for exactly those items, no item whose fetch failed has a row, and, when
\* no store call of the pass failed, the added rows are exactly the previously
\* unknown items whose fetch succeeded.
C4_FailureIsolation ==
    \A p \in DOMAIN passes : Completed(p) =>
        LET known == VideoKeys(p.rows0)
            added == VideoKeys(videos) \ known
        IN  /\ Attempted(p) = Listed(p)
            /\ known \subseteq VideoKeys(videos)
            /\ added = FetchedOK(p) \cap Stored(p)
            /\ Announced(p, TRUE) = added
            /\ \A v \in added : CallbackCount(p, v, TRUE) = 1
            /\ FetchFailed(p) \cap VideoKeys(videos) = {}
            /\ ~StoreFaults(p) => added = FetchedOK(p) /\ FetchedOK(p) \cap known = {}

\* a pass in which a fetch failed, a later item was fetched, and no store call failed
C4_Witness ==
    \E p \in DOMAIN passes :
        /\ Completed(p) /\ ~StoreFaults(p)
        /\ \E i, j \in 1..Len(p.log) :
              /\ i < j
              /\ p.log[i][1] = "fetch" /\ p.log[i][3] = FALSE
              /\ p.log[j][1] = "callback" /\ p.log[j][3] = TRUE

\* the second of two successive direct calls for the same url, the listing
\* obtained both times and no store call failing in either
SecondRun(p) ==
    /\ Completed(p)
    /\ p.prev.url = p.url /\ p.prev.err = "ok"
    /\ ~p.prev.faults /\ ~StoreFaults(p)

\* C5 as stated: for any outcome of the fetches of the first run, the second run
\* adds zero rows and invokes callback(id, false) for every listed item.
C5_SecondRunAddsNothing ==
    \A p \in DOMAIN passes : SecondRun(p) =>
        /\ VideoKeys(videos) = VideoKeys(p.rows0)
        /\ \A v \in Listed(p) : CallbackCount(p, v, FALSE) = 1

\* C5 (amended): for any outcome of the fetches of the first run, the second
\* run adds rows only for items whose fetch failed in the first run, leaves the
\* rows it found unchanged, and for every other listed item it makes no fetch
\* and invokes callback(id, false) once.
C5_SecondRunRetriesOnlyFailed ==
    \A p \in DOMAIN passes : SecondRun(p) =>
        /\ VideoKeys(videos) \ VideoKeys(p.rows0) \subseteq p.prev.failed
        /\ p.rows0 \subseteq videos
        /\ \A v \in Listed(p) \ p.prev.failed :
              /\ CallbackCount(p, v, FALSE) = 1
              /\ v \notin FetchedOK(p) \cup FetchFailed(p)

\* a second run that skipped one item and fetched the one that had failed before
C5_Witness ==
    \E p \in DOMAIN passes :
        /\ SecondRun(p)
        /\ Listed(p) \ p.prev.failed # {}
        /\ \E v \in p.prev.failed : v \in VideoKeys(videos) \ VideoKeys(p.rows0)

\* C6: when every listed item already has a row, a pass makes no fetch, leaves
\* every video row unchanged, never invokes callback(id, true), and invokes
\* callback(id, false) once for each listed item whose existence check did not
\* fail; when no store call fails its callbacks are exactly one
\* callback(id, false) per listed item, in listing order.
C6_IdempotentSkip ==
    \A p \in DOMAIN passes :
        (Completed(p) /\ Listed(p) \subseteq VideoKeys(p.rows0)) =>
            /\ FetchedOK(p) \cup FetchFailed(p) = {}
            /\ videos = p.rows0
            /\ Announced(p, TRUE) = {}
            /\ \A v \in Listed(p) :
                  CallbackCount(p, v, FALSE) = IF v \in LogIds(p, "exists", "error") THEN 0 ELSE 1
            /\ ~StoreFaults(p) => p.log = [i \in 1..Len(p.list) |-> <<"callback", p.list[i], FALSE>>]

\* a pass over two listed items that both had a row
C6_Witness ==
    \E p \in DOMAIN passes :
        /\ Completed(p) /\ ~StoreFaults(p)
        /\ Len(p.list) = 2
        /\ Listed(p) \subseteq VideoKeys(p.rows0)

\* C7: after ingesting with a source reference, there is a single playlist row
\* for it and the row's title is the display name supplied by that call.
C7_TitleIsLatestName ==
    \A p \in DOMAIN passes :
        (p.pc = "return" /\ ~p.viaScheduler /\ p.err \in {"none", "list"}) =>
            LET rows == PlaylistRows(playlists, extractPlaylistID(p.url))
            IN  Cardinality(rows) = 1 /\ \A r \in rows : r.title = p.name

\* C8: every interval calculateInterval returns is 5 minutes when the check
\* instant is less than 24 hours after lastChange and 15 minutes when it is 24
\* hours or more after it (or nothing was ever downloaded), lastChange being the
\* value the state holds at that check: the interval is recomputed each time.
C8_CadenceAdaptation ==
    \A u \in DOMAIN calc :
        LET c == calc[u]
        IN  c.at # ZeroTime =>
                /\ c.lastChange <= c.at
                /\ c.interval = IF c.lastChange # ZeroTime /\ c.at - c.lastChange < 24 * 60
                                THEN 5 ELSE 15

\* a check made exactly 24 hours after the last download, answered with the long interval
C8_Witness ==
    \E u \in DOMAIN calc :
        /\ calc[u].lastChange # ZeroTime
        /\ calc[u].at - calc[u].lastChange = Day
        /\ calc[u].interval = LongInterval

\* C9: after a validation sweep every row with a recorded file is valid if the
\* file exists and missing if it does not (error if os.Stat could not look);
\* a sweep neither removes nor creates rows; CleanupMissingFiles removes every
\* row that is missing and whose file os.Stat reports absent, and nothing else,
\* so that VideoExists is false for it afterwards.
C9_ValidationTransitions ==
    /\ [](lastOp = "validate" =>
            \A r \in videos : HasFilePath(r) =>
                r.validation_status = IF r.file_path \in denied THEN "error"
                                      ELSE IF r.file_path \in files THEN "valid" ELSE "missing")
    /\ [][/\ (sweeps' = sweeps + 1 /\ lastOp' = "validate") =>
                VideoKeys(videos') = VideoKeys(videos)
          /\ (sweeps' = sweeps + 1 /\ lastOp' = "cleanup") =>
                /\ videos' \subseteq videos
                /\ \A r \in videos :
                      r \notin videos' <=>
                          /\ r.validation_status = "missing"
                          /\ r.file_path \notin files
                          /\ r.file_path \notin denied
                /\ \A r \in videos \ videos' : r.youtube_id \notin VideoKeys(videos')]_vars

\* a video that was downloaded, lost its file, was found missing and removed,
\* and is still absent after one more sweep
C9_Witness ==
    /\ lastOp = "validate"
    /\ \E v \in removed :
          /\ fetchOK[v] = 1
          /\ v \notin VideoKeys(videos)
          /\ \A name \in DOMAIN cfg : DownloadPath(name, v) \notin files

\* C10: a driver tick launches one pass for a configured playlist when
\* now - lastChecked >= calculateInterval() at that tick and none otherwise;
\* the forced round at start launches one pass for every configured playlist.
C10_DueRule ==
    [][/\ ticks' = ticks + 1 =>
            \A n \in DOMAIN cfg :
                LET ps == states[cfg[n]]
                    due == Sub(now', ps.lastChecked) >= calculateInterval(ps, now')
                IN  InFlightFor(passes', cfg[n]) =
                        InFlightFor(passes, cfg[n]) + IF due THEN 1 ELSE 0
       /\ (sched = "init" /\ sched' = "loop") =>
            \A n \in DOMAIN cfg : InFlightFor(passes', cfg[n]) = InFlightFor(passes, cfg[n]) + 1]_vars

\* a tick that launched a pass exactly one long interval after the last check
C10_Witness ==
    /\ round.kind = "tick" /\ round.at = now
    /\ \E n \in round.launched :
          /\ states[cfg[n]].lastChecked # ZeroTime
          /\ now - states[cfg[n]].lastChecked = LongInterval
          /\ InFlightFor(passes, cfg[n]) = 1

\* C11: when a pass launched by the scheduler completes, with or without an
\* error, lastChecked of its playlist becomes the instant of completion, and
\* lastChange becomes that instant if callback(id, true) was invoked during the
\* pass and keeps its value otherwise.
C11_StateAfterPass ==
    [][\A p \in DOMAIN passes :
          (p.pc = "return" /\ p.viaScheduler /\ passes' = BagTake(passes, p)) =>
              /\ states'[p.url].lastChecked = now
              /\ states'[p.url].lastChange =
                    IF Announced(p, TRUE) # {} THEN now ELSE states[p.url].lastChange]_vars

\* a pass that failed before its loop has completed: checked, no change recorded
C11_Witness ==
    /\ playlists = {}
    /\ passes = EmptyBag
    /\ \E u \in DOMAIN states :
          states[u].lastChecked = now /\ states[u].lastChange = ZeroTime

\* C12: every read and every write of lastChecked and lastChange is made by a
\* goroutine that holds the playlist's mutex at that moment.
C12_AccessUnderLock == access.by # "none" => access.holder = access.by

\* C13: once cancel() has been called the loop of runScheduler launches no
\* further pass, a tick that is ready at the same moment included.
C13_NoLaunchAfterCancel ==
    [][(shutdown # "no" /\ sched = "loop") => BagSize(passes') <= BagSize(passes)]_vars

\* C14 as stated: a pass in flight only ever ends by returning from its loop,
\* and main can declare shutdown complete as soon as the scheduler has returned.
C14_PassesRunToTheEnd ==
    /\ []((shutdown = "requested" /\ sched = "stopped") => ENABLED MainExit)
    /\ [][BagSize(passes') < BagSize(passes) =>
            \E p \in DOMAIN passes : p.pc = "return" /\ passes' = BagTake(passes, p)]_vars

\* C14 (amended): cancel() and the return of the scheduler leave the passes in
\* flight as they are, and each of them can go on until the process ends; main
\* declares shutdown complete only after the scheduler has returned and can do
\* so as soon as it has, whatever passes are in flight; these end with the process.
C14_ShutdownWithoutWaiting ==
    /\ [](shutdown = "requested" => \A p \in DOMAIN passes : ENABLED PassStep(p))
    /\ []((shutdown = "requested" /\ sched = "stopped") => ENABLED MainExit)
    /\ [][/\ (shutdown = "no" /\ shutdown' = "requested") => passes' = passes
          /\ (sched = "loop" /\ sched' = "stopped") => passes' = passes
          /\ (shutdown = "requested" /\ shutdown' = "complete") =>
                /\ sched = "stopped"
                /\ killed' = BagSize(passes)
                /\ passes' = EmptyBag]_vars

\* shutdown was declared complete while a pass was still in flight
C14_Witness == shutdown = "complete" /\ killed > 0

\* C15 as stated: a direct pass whose listing failed returns with the store
\* exactly as it was when the pass started.
C15_StoreUntouchedOnListError ==
    \A p \in DOMAIN passes :
        (p.pc = "return" /\ p.err = "list" /\ ~p.viaScheduler) =>
            /\ videos = p.rows0
            /\ playlists = p.pls0

\* C15 (amended): a direct pass whose listing failed returns without having
\* called the download tool, with every video row and every playlist row it
\* found unchanged; the one thing it may have added is the row of its own
\* playlist, made before the listing with the pass's name and no videos, and
\* only when the store held none.
C15_ListErrorLeavesRows ==
    \A p \in DOMAIN passes :
        (p.pc = "return" /\ p.err = "list" /\ ~p.viaScheduler) =>
            LET id == extractPlaylistID(p.url)
                made == playlists \ p.pls0
            IN  /\ p.log = <<>>
                /\ videos = p.rows0
                /\ p.pls0 \subseteq playlists
                /\ Cardinality(made) <= 1
                /\ \A r \in made : r.youtube_id = id /\ r.title = p.name /\ r.video_count = 0
                /\ PlaylistRows(p.pls0, id) # {} => made = {}
                /\ PlaylistRows(playlists, id) # {}

\* a listing failed in a store that already held rows of another playlist,
\* and the pass has made the row of its own playlist
C15_Witness ==
    \E p \in DOMAIN passes :
        /\ p.pc = "return" /\ p.err = "list" /\ ~p.viaScheduler
        /\ p.pls0 # {}
        /\ p.rows0 # {}
        /\ playlists # p.pls0

\* C16: a direct pass for a url that is empty, or is a url of the site with
\* no list= parameter, ends with the invalid-url error, having called neither
\* the store nor the tool.
C16_InvalidReferenceRejected ==
    \A p \in DOMAIN passes :
        (/\ ~p.viaScheduler
         /\ p.pc # "start"
         /\ p.url = <<>> \/ (ContainsSite(p.url) /\ ~Contains(p.url, "list="))) =>
            /\ p.pc = "return"
            /\ p.err = "invalid"
            /\ p.log = <<>>
            /\ playlists = p.pls0
            /\ videos = p.rows0

\* C18: when AddVideo returns an error, the playlists and the videos are what
\* they were when it was called.
C18_AddItemAtomic ==
    (ret.op = "AddVideo" /\ ret.err) =>
        /\ playlists = ret.playlists0
        /\ videos = ret.videos0

\* C17 as stated: UpdateFileInfo for an id that has no row returns an error
\* and leaves the videos as they were.
C17_MissingRowReported ==
    (ret.op = "UpdateFileInfo" /\ ret.arg[1] \notin VideoKeys(ret.videos0)) =>
        /\ ret.err
        /\ videos = ret.videos0

\* C17 (amended): UpdateFileInfo returns an error only when its statement
\* fails, and then changes nothing; for an id that has no row it returns no
\* error and changes nothing; for an id that has a row it gives that row the
\* path and the size it was called with, status valid and the current time as
\* last_validated, and leaves every other row and the playlists as they were.
C17_UpdateFileInfo ==
    ret.op = "UpdateFileInfo" =>
        LET id == ret.arg[1]
            old == {r \in ret.videos0 : r.youtube_id = id}
        IN  /\ playlists = ret.playlists0
            /\ ret.err => videos = ret.videos0
            /\ (~ret.err /\ old = {}) => videos = ret.videos0
            /\ (~ret.err /\ old # {}) =>
                  /\ ret.videos0 \ old \subseteq videos
                  /\ VideoKeys(videos) = VideoKeys(ret.videos0)
                  /\ \A r \in videos : r.youtube_id = id =>
                        /\ r.file_path = ret.arg[2]
                        /\ r.file_size = ret.arg[3]
                        /\ r.validation_status = "valid"
                        /\ r.last_validated.t = now
                        /\ r.last_validated # NullTime
                        /\ \E o \in old :
                              r = [o EXCEPT !.file_path = r.file_path, !.file_size = r.file_size,
                                            !.validation_status = r.validation_status,
                                            !.last_validated = r.last_validated]

\* UpdateFileInfo has returned without error for an id that has no row, in a
\* store that holds the row of another video
C17_Witness ==
    /\ ret.op = "UpdateFileInfo"
    /\ ~ret.err
    /\ ret.arg[1] \notin VideoKeys(ret.videos0)
    /\ ret.videos0 # {}

\* C19: GetVideosNeedingValidation(maxAge) returns the ids of the rows with a
\* recorded file whose last_validated is NULL or more than maxAge before now.
C19_NeedingValidation ==
    (ret.op = "GetVideosNeedingValidation" /\ ~ret.err) =>
        ret.ids = {r.youtube_id : r \in {x \in videos :
                      /\ HasFilePath(x)
                      /\ \/ x.last_validated = NullTime
                         \/ now - x.last_validated.t > ret.arg[1]}}

\* C20: ValidateFiles that returns without error has visited the rows with a
\* recorded file and no other row: it returns their number, and each of them
\* whose UPDATE went through has the status os.Stat gives for its file (valid,
\* missing, or error) and the one timestamp taken before the loop; a row whose
\* UPDATE failed, a row with no file and the playlists are as they were.
\* ValidateFiles that returns an error returns 0 and changes nothing.
C20_ValidateAllFiles ==
    ret.op = "ValidateFiles" =>
        LET visited == {r \in ret.videos0 : HasFilePath(r)}
            swept(r) == [r EXCEPT !.validation_status =
                                      IF r.file_path \in denied THEN "error"
                                      ELSE IF r.file_path \in files THEN "valid" ELSE "missing",
                                  !.last_validated = [t |-> now, fmt |-> "rfc3339"]]
        IN  /\ playlists = ret.playlists0
            /\ ret.err => (ret.n = 0 /\ videos = ret.videos0)
            /\ ~ret.err =>
                  /\ ret.n = Cardinality(visited)
                  /\ videos = {IF r \in visited /\ r.youtube_id \notin ret.ids THEN swept(r) ELSE r :
                                  r \in ret.videos0}

\* a sweep with no failure has visited two videos, found the file of one and
\* not the file of the other, and has changed the status of a row
C20_Witness ==
    /\ ret.op = "ValidateFiles" /\ ~ret.err /\ ret.ids = {}
    /\ ret.n = 2
    /\ \E r \in videos : r.validation_status = "valid" /\ r.file_path \in files
    /\ \E r \in videos : r.validation_status = "missing"
    /\ \E r \in videos, o \in ret.videos0 :
          r.youtube_id = o.youtube_id /\ r.validation_status # o.validation_status

\* C21 as stated: a validation pass whose query succeeds goes on to the sweep,
\* whatever the query returned.
C21_SweepUnconditional ==
    [][(validator.pc = "query" /\ validator'.pc # "query" /\ validator'.out # "queryError")
          => validator'.pc = "sweep"]_vars

\* C21 (amended): a validation pass queries GetVideosNeedingValidation for a
\* week; it ends there, with the store as it was, when the query fails or
\* returns no id, and goes on to ValidateFiles otherwise; that sweep stamps
\* every row with a recorded file whose UPDATE goes through, the rows the query
\* did not return included.
C21_SweepWhenStale ==
    [][/\ (validator.pc = "query" /\ validator'.pc # "query") =>
            /\ videos' = videos
            /\ validator'.pc = "sweep" =>
                  /\ validator'.ids = GetVideosNeedingValidation(videos, now, ValidationMaxAge)
                  /\ validator'.ids # {}
            /\ validator'.pc # "sweep" =>
                  /\ validator'.pc = "select"
                  /\ validator'.out \in {"queryError", "nothing"}
                  /\ validator'.out = "nothing" =>
                        GetVideosNeedingValidation(videos, now, ValidationMaxAge) = {}
       /\ (validator.pc = "sweep" /\ validator'.pc # "sweep") =>
            /\ validator'.pc = "select"
            /\ ret'.op = "ValidateFiles"
            /\ ret'.err => videos' = videos
            /\ ~ret'.err =>
                  /\ VideoKeys(videos') = VideoKeys(videos)
                  /\ ret'.n = Cardinality({r \in videos : HasFilePath(r)})
                  /\ \A r \in videos' :
                        (HasFilePath(r) /\ r.youtube_id \notin ret'.ids) =>
                            r.last_validated = [t |-> now, fmt |-> "rfc3339"]]_vars

\* a pass has swept a row that its query had not returned
C21_Witness ==
    /\ validator.pc = "select" /\ validator.out = "swept"
    /\ ret.op = "ValidateFiles" /\ ~ret.err /\ ret.ids = {}
    /\ \E r \in ret.videos0 :
          /\ r.youtube_id \notin GetVideosNeedingValidation(ret.videos0, now, ValidationMaxAge)
          /\ \E q \in videos : q.youtube_id = r.youtube_id /\ q.last_validated # r.last_validated

\* C22: a step that takes a video row away is a CleanupMissingFiles that
\* committed, and the row had status missing and a file that os.Stat reports
\* absent at that moment; CleanupMissingFiles changes no row that it leaves,
\* leaves every row with another status or with a file that is there again,
\* takes away every other row unless its DELETE fails, and returns the number
\* of rows it took away (0 and no change when its transaction fails).
C22_OnlyCleanupRemoves ==
    [][/\ \A r \in videos :
            r.youtube_id \notin VideoKeys(videos') =>
                /\ ret'.op = "CleanupMissingFiles" /\ ~ret'.err
                /\ sweeps' = sweeps + 1
                /\ r.validation_status = "missing"
                /\ r.file_path \notin files
                /\ r.file_path \notin denied
       /\ (sweeps' = sweeps + 1 /\ ret'.op = "CleanupMissingFiles") =>
            /\ videos' \subseteq videos
            /\ playlists' = playlists
            /\ ret'.n = Cardinality(videos \ videos')
            /\ ret'.err => videos' = videos
            /\ ~ret'.err =>
                  \A r \in videos :
                      (/\ r.validation_status = "missing"
                       /\ r.file_path \notin files
                       /\ r.file_path \notin denied
                       /\ r.youtube_id \notin ret'.ids) => r \notin videos']_vars

\* a cleanup has taken one missing video away and left another one, found
\* missing by the same sweep, whose file was back on the disk
C22_Witness ==
    /\ ret.op = "CleanupMissingFiles" /\ ~ret.err /\ ret.ids = {}
    /\ ret.n = 1
    /\ \E r \in videos : r.validation_status = "missing" /\ r.file_path \in files \ denied

\* C23: a CleanupMissingFiles that commits on a store whose counts are right
\* leaves every playlist's video_count equal to the number of its video rows.
C23_CountSurvivesCleanup ==
    [][(/\ sweeps' = sweeps + 1
        /\ ret'.op = "CleanupMissingFiles"
        /\ ~ret'.err
        /\ \A r \in playlists : r.video_count = CountVideos(videos, r.id)) =>
            \A r \in playlists' : r.video_count = CountVideos(videos', r.id)]_vars

\* C24 as stated: once Stop has been called on a running Validator, no
\* validation pass begins any more.
C24_NoPassAfterStop ==
    [][(validator.stop /\ validator.stopAt # "off")
          => ~(validator.pc # "query" /\ validator'.pc = "query")]_vars

\* C24 (amended): Stop changes neither where Start is nor the store; a pass in
\* flight goes on to its end, and Start returns only from its select, with
\* stopChan closed; once Stop has been called on a running Validator a pass
\* begins only at a select that finds a tick in the ticker's channel; and a
\* Validator that was started and stopped returns in the end.
C24_CooperativeStop ==
    /\ [][/\ (~validator.stop /\ validator'.stop) =>
                (validator'.pc = validator.pc /\ videos' = videos)
          /\ (validator.pc # "returned" /\ validator'.pc = "returned") =>
                (validator.pc = "select" /\ validator.stop)
          /\ (/\ validator.stop /\ validator.stopAt # "off"
              /\ validator.pc # "query" /\ validator'.pc = "query") =>
                (validator.pc = "select" /\ validator.tick)]_vars
    /\ [](validator.pc = "query" => ENABLED RunValidationQuery)
    /\ [](validator.pc = "sweep" => ENABLED RunValidationSweep)
    /\ []((validator.stop /\ validator.pc # "off") => <>(validator.pc = "returned"))

\* Stop was called while a sweep was in flight; the sweep went through, no
\* pass began after it, and Start has returned
C24_Witness ==
    /\ validator.pc = "returned"
    /\ validator.stopAt = "sweep"
    /\ validator.out = "swept"
    /\ validator.late = 0
    /\ ret.op = "none"
    /\ \E r \in videos : r.last_validated.fmt = "rfc3339"

\* C25: while the scheduler runs the Validator has been started beside it,
\* and a video row whose file has gone from the disk gets status missing in
\* the end, unless the process is shut down first.
C25_ValidatorBesideScheduler ==
    /\ [](sched = "loop" => validator.pc # "off")
    /\ \A v \in VideoIDs :
          (\E r \in videos : r.youtube_id = v /\ r.file_path \notin files)
              ~> \/ shutdown # "no"
                 \/ \E r \in videos : r.youtube_id = v /\ r.validation_status = "missing"

\* C26: a direct pass works through the entries in the order the listing
\* tool printed them, one after the other: everything it has done for an
\* entry comes before anything it does for a later entry; callback(id, true)
\* comes right after the download, the AddVideo and the UpdateFileInfo of that
\* same id, in this order, and the row of that id is in the store by then;
\* and nothing has been done yet for the entry whose existence check is next.
C26_SequentialInOrder ==
    \A p \in DOMAIN passes :
        (~p.viaScheduler /\ p.list # <<>>) =>
            LET listing == FilterEntries(RemoteEntries(remote, p.url))
                Pos(v) == CHOOSE i \in 1..Len(listing) : listing[i] = v
            IN  /\ p.list = listing
                /\ \A a, b \in 1..Len(p.log) :
                      a < b => Pos(p.log[a][2]) <= Pos(p.log[b][2])
                /\ \A k \in 1..Len(p.log) :
                      (p.log[k][1] = "callback" /\ p.log[k][3] = TRUE) =>
                          /\ k >= 4
                          /\ p.log[k-3] = <<"fetch", p.log[k][2], TRUE>>
                          /\ p.log[k-2] = <<"add", p.log[k][2], TRUE>>
                          /\ p.log[k-1][1] = "update" /\ p.log[k-1][2] = p.log[k][2]
                          /\ p.log[k][2] \in VideoKeys(videos)
                /\ p.pc \in {"exists", "add", "update"} =>
                      \A k \in 1..Len(p.log) : Pos(p.log[k][2]) <= p.i
                /\ p.pc = "exists" =>
                      \A k \in 1..Len(p.log) : Pos(p.log[k][2]) < p.i

\* a pass has ingested both entries of a listing that names v2 before v1
C26_Witness ==
    \E p \in DOMAIN passes :
        /\ ~p.viaScheduler /\ p.pc = "return"
        /\ p.list = <<"v2", "v1">>
        /\ Len(p.log) = 8
        /\ p.log[4] = <<"callback", "v2", TRUE>>
        /\ p.log[8] = <<"callback", "v1", TRUE>>

\* C27: every video row references a playlist row of the store; a pass that
\* has a listing, or has done anything for an entry, has its playlist row in
\* the store; and a pass whose GetOrCreatePlaylist failed is over with no
\* listing and nothing done for any entry.
C27_VideosReferencePlaylists ==
    /\ \A r \in videos : \E q \in playlists : q.id = r.playlist_id
    /\ \A p \in DOMAIN passes :
          /\ (p.pc \in {"exists", "add", "update"} \/ p.list # <<>> \/ p.log # <<>>) =>
                PlaylistRows(playlists, extractPlaylistID(p.url)) # {}
          /\ p.err = "store" => (p.pc = "return" /\ p.list = <<>> /\ p.log = <<>>)

\* an earlier pass has stored a video under its playlist, and the pass after
\* it has ended at its failing GetOrCreatePlaylist
C27_Witness ==
    /\ \E r \in videos : \E q \in playlists :
          q.id = r.playlist_id /\ r.validation_status = "valid"
    /\ \E p \in DOMAIN passes : ~p.viaScheduler /\ p.err = "store" /\ p.pc = "return"

\* C28: no two playlist rows have the same youtube_id (nor the same id), also
\* while several goroutines are inside GetOrCreatePlaylist for the same
\* unknown id: of the callers that are between their INSERT and their return
\* at most one per youtube_id has created a row, and a caller that got an
\* answer got the row the table holds for its youtube_id.
C28_PlaylistIdsUnique ==
    /\ \A r1, r2 \in playlists :
          (r1.youtube_id = r2.youtube_id \/ r1.id = r2.id) => r1 = r2
    /\ \A c, d \in Callers :
          (txs[c].created /\ txs[d].created /\ txs[c].youtubeID = txs[d].youtubeID
             /\ txs[c].row.id = txs[d].row.id) => c = d
    /\ \A c \in Callers :
          txs[c].pc = "done" =>
              \E r \in playlists : r.youtube_id = txs[c].youtubeID /\ r.id = txs[c].row.id

\* two callers found no row for the same id; one created it, the other's
\* INSERT was refused
C28_Witness ==
    \E c, d \in Callers :
        /\ c # d
        /\ txs[c].youtubeID = txs[d].youtubeID
        /\ txs[c].pc = "done" /\ txs[c].created
        /\ txs[d].pc = "failed" /\ txs[d].err = "insert"
        /\ Cardinality(PlaylistRows(playlists, txs[c].youtubeID)) = 1

\* C29: the store never holds two video rows with the same youtube_id, and
\* each video row references exactly one playlist row, also while the passes
\* of two playlists that list the same video run at the same time or one
\* after the other.
C29_OneRowPerVideo ==
    /\ \A r1, r2 \in videos : r1.youtube_id = r2.youtube_id => r1 = r2
    /\ \A r \in videos : Cardinality({q \in playlists : q.id = r.playlist_id}) = 1

\* the passes of two playlists have both stored the video they share, and the
\* store holds one row for it
C29_Witness ==
    /\ \E p, q \in DOMAIN passes :
          /\ extractPlaylistID(p.url) # extractPlaylistID(q.url)
          /\ \E k \in 1..Len(p.log) : p.log[k] = <<"add", "v1", TRUE>>
          /\ \E k \in 1..Len(q.log) : q.log[k] = <<"add", "v1", TRUE>>
    /\ Cardinality({r \in videos : r.youtube_id = "v1"}) = 1

\* C30: with no shutdown, a ticker that keeps firing and passes that all
\* return, a pass that ends with an error (invalid url, listing error, store
\* error) stops nothing: from then on the scheduler launches a pass for every
\* configured playlist again and again, without end.
C30_FailedPassKeepsScheduling ==
    \A n \in Names :
        (<>(\E p \in DOMAIN passes : p.viaScheduler /\ p.pc = "return" /\ p.err # "none"))
          => []<><<round'.kind = "tick" /\ n \in round'.launched /\ passes' # passes>>_vars

\* the playlist with the empty url, whose passes all fail, has had a pass
\* return and has just been given a new one by a tick
C30_Witness ==
    /\ cfg["chill"] = UrlEmpty
    /\ states[UrlEmpty].lastChecked # ZeroTime
    /\ round.kind = "tick" /\ "chill" \in round.launched
    /\ \E p \in DOMAIN passes : p.url = UrlEmpty /\ p.pc = "start"

\* C31 as claimed: a row is pending when it is created, and a step that
\* takes a row out of pending is a ValidateFiles sweep.
C31_OnlySweepLeavesPending ==
    [][\A r2 \in videos' :
          /\ (r2.youtube_id \notin VideoKeys(videos)) => r2.validation_status = "pending"
          /\ \A r \in videos :
                (r.youtube_id = r2.youtube_id /\ r.validation_status = "pending"
                   /\ r2.validation_status # "pending")
                => lastOp' \in {"validate", "partial"}]_vars

\* C31 as the code has it: a row is pending when AddVideo creates it, and a
\* step that takes a row out of pending is either a ValidateFiles sweep or the
\* UpdateFileInfo of the pass that has just downloaded the file, which sets
\* valid together with the path and the size the download reported.
C31_PendingUntilFileInfoOrSweep ==
    [][\A r2 \in videos' :
          /\ (r2.youtube_id \notin VideoKeys(videos)) => r2.validation_status = "pending"
          /\ \A r \in videos :
                (r.youtube_id = r2.youtube_id /\ r.validation_status = "pending"
                   /\ r2.validation_status # "pending")
                => \/ lastOp' \in {"validate", "partial"}
                   \/ /\ lastOp' = "ingest"
                      /\ r2.validation_status = "valid"
                      /\ \E p \in DOMAIN passes :
                            /\ p.pc = "update" /\ p.list[p.i] = r.youtube_id
                            /\ r2.file_path = p.filePath /\ r2.file_size = p.fileSize]_vars

\* a pass has stored a video and set it valid, and no sweep has run yet
C31_Witness ==
    /\ sweeps = 0
    /\ \E r \in videos : r.validation_status = "valid"
    /\ \E p \in DOMAIN passes :
          \E k \in 1..Len(p.log) : p.log[k][1] = "update" /\ p.log[k][3] = TRUE

C33_AnnouncedMeansFileInfoStored ==
    \A p \in DOMAIN passes :
        LET n == Len(p.log)
        IN  (n > 0 /\ p.log[n][1] = "callback" /\ p.log[n][3] = TRUE) =>
                /\ p.log[n-1] = <<"update", p.log[n][2], TRUE>>
                /\ \E r \in videos :
                      /\ r.youtube_id = p.log[n][2]
                      /\ r.file_path = DownloadPath(p.name, p.log[n][2])
                      /\ r.file_size = FileSizeOf(p.log[n][2])
                      /\ r.validation_status = "valid"

\* C34: in every playlistState lastChange is never later than lastChecked,
\* whatever the order in which the passes of the playlist return.
C34_ChangeNotAfterChecked ==
    \A u \in DOMAIN states : states[u].lastChange <= states[u].lastChecked

\* a pass that downloaded something has returned, and a later pass of the
\* same playlist has returned after it without a download
C34_Witness ==
    \E u \in DOMAIN states :
        /\ states[u].lastChange # ZeroTime
        /\ states[u].lastChange < states[u].lastChecked

C36_RemovedIsIngestedAgain ==
    \A p \in DOMAIN passes :
        Completed(p) =>
            \A v \in (removed \cap Listed(p)) \ VideoKeys(p.rows0) :
                /\ CallbackCount(p, v, FALSE) = 0
                /\ v \in LogIds(p, "exists", "error") \cup FetchedOK(p) \cup FetchFailed(p)
                /\ v \in Stored(p) =>
                      /\ v \in FetchedOK(p)
                      /\ v \in VideoKeys(videos)
                      /\ CallbackCount(p, v, TRUE) = 1
                /\ (~StoreFaults(p) /\ v \notin FetchFailed(p)) =>
                      /\ CallbackCount(p, v, TRUE) = 1
                      /\ \E r \in videos :
                            /\ r.youtube_id = v
                            /\ r.validation_status = "valid"
                            /\ r.file_path = DownloadPath(p.name, v)
                            /\ r.file_path \in files

\* a video whose row a cleanup had removed has been downloaded and stored
\* again by a later pass
C36_Witness ==
    \E p \in DOMAIN passes :
        /\ Completed(p)
        /\ \E v \in (removed \cap Listed(p)) \ VideoKeys(p.rows0) :
              /\ CallbackCount(p, v, TRUE) = 1
              /\ fetchOK[v] = 2
              /\ \E r \in videos : r.youtube_id = v /\ r.validation_status = "valid"

C38_HelperReturnsRowId ==
    ret.op = "getOrCreatePlaylist" =>
        LET before == PlaylistRows(ret.playlists0, ret.arg[1])
            after == PlaylistRows(playlists, ret.arg[1])
        IN  /\ ~ret.err
            /\ Cardinality(after) = 1
            /\ \A r \in after : r.id = ret.n /\ r.title = ret.arg[2]
            /\ \A r \in before : r.id = ret.n

====
